---- MODULE Spec2Model ----
(***************************************************************************)
(* Verification model of the ADW (AI Developer Workflow) layer of          *)
(* CrossGen-ai/ai-in-4: the external agent invoker (adw_modules/agent.py), *)
(* the test-resolution loops and the Test phase (adw_test.py), the Plan    *)
(* phase (adw_plan.py) and the Build phases (adw_build.py,                 *)
(* adw_build_iso.py).                                                      *)
(*                                                                         *)
(* Every subsystem has its own group of variables, its own initial         *)
(* predicate and its own specification; the groups a specification does    *)
(* not use stay at their idle value.                                       *)
(***************************************************************************)
EXTENDS Integers, Sequences, FiniteSets, TLC

(***************************************************************************)
(* Bounds of the model (not program constants).                            *)
(***************************************************************************)
MaxLines == 2
MaxRetriesArg == 2
MaxTests == 2
MaxE2EFiles == 2
MaxAttemptsArg == 1

(***************************************************************************)
(* Program constants.                                                      *)
(***************************************************************************)
DefaultMaxRetries == 3
MAX_TEST_RETRY_ATTEMPTS == 4
MAX_E2E_TEST_RETRY_ATTEMPTS == 2

VARIABLES
    \* ---- get_model_for_slash_command (agent.py) ----
    m_pc,             \* "idle" | "request" | "resolved"
    slash_command,    \* request.slash_command
    stored_state,     \* what ADWState.load(request.adw_id) finds
    default_model,    \* the `default` parameter
    model,            \* the returned model name
    \* ---- prompt_claude_code (agent.py) ----
    i_pc,             \* "idle" | "ready" | "done"
    call,             \* the environment of the call: probe, process exit, transcript
    response,         \* the AgentPromptResponse returned
    \* ---- prompt_claude_code_with_retry (agent.py) ----
    r_pc,             \* "idle" | "called" | "loop" | "returned"
    max_retries,      \* parameter max_retries
    retry_delays,     \* parameter retry_delays (after the extension loop)
    attempt,          \* loop variable of `for attempt in range(max_retries + 1)`
    last_response,    \* last_response / response
    returned,         \* the value the function returned
    last_call,        \* what the environment did in the last prompt_claude_code call
    responses,        \* history: success flag of every prompt_claude_code call
    probes,           \* history: number of `claude --version` probes
    spawns,           \* history: number of agent processes spawned
    slept,            \* history: the delays slept, in order
    \* ---- run_tests_with_resolution / run_e2e_tests_with_resolution (adw_test.py) ----
    t_pc,             \* "idle" | "run" | "resolve" | "done"
    t_kind,           \* "unit" | "e2e": which of the two loops runs
    max_attempts,     \* parameter max_attempts
    t_attempt,        \* local `attempt`
    results,          \* local `results`: the passed flag of every record, in order
    passed_count,     \* local `passed_count`
    failed_count,     \* local `failed_count`
    test_response,    \* local `test_response`: "None" | "success" | "failure"
    failed_tests,     \* the list handed to resolve_failed_tests
    idx,              \* resolve_failed_tests: number of failed tests already handled
    resolved_count,   \* resolve_failed_tests: resolved_count
    unresolved_count, \* resolve_failed_tests: unresolved_count
    e2e_files,        \* number of files matching .claude/commands/e2e/*.md
    runs,             \* history: number of runs of the test suite
    last_run,         \* history: what the last run reported
    round_outcomes,   \* history: success flag of every resolver call of the round
    \* ---- the phase scripts: main() of adw_plan.py, adw_build.py, adw_build_iso.py, adw_test.py ----
    p_pc,             \* position in main(), "idle" | ... | "exited"
    script,           \* "none" | "plan" | "build" | "build_iso" | "test"
    state_data,       \* state.data: the in-memory run state
    disk,             \* the state file of the run ID
    exit_code,        \* -1 while main() runs, then the process exit code
    issue_command,    \* local issue_command (issue_class in adw_test.py)
    branch_name,      \* local branch_name
    plan_response,    \* adw_plan.py: plan_response
    steps,            \* history: agent calls, git operations and state saves, in order
    comments,         \* history: the issue comments main() posts, in order
    \* ---- adw_test.py main(): its own locals ----
    skip_e2e,            \* the --skip-e2e flag
    main_results,        \* results returned by run_tests_with_resolution
    main_passed_count,   \* passed_count
    main_failed_count,   \* failed_count
    main_test_response,  \* test_response
    e2e_results,         \* e2e_results
    e2e_passed_count,    \* e2e_passed_count
    e2e_failed_count,     \* e2e_failed_count
    \* ---- ADWState.append_adw_id (adw_modules/state.py) ----
    all_adws,  \* state.data["all_adws"]: the sub-workflows that ran on this run ID
    appended,  \* history: the names passed to append_adw_id, in order
    \* ---- categorize_tests_fast (adw_test.py, adw_test_iso.py) ----
    requirements,  \* the requirements categorize_tests_fast has gone through, with the file each one names
    cat_result,  \* result: the requirement indexes under missing / obviously_broken / needs_validation
    \* ---- ensure_tests_exist_and_complete (adw_test.py) ----
    ens_pc,  \* "idle" | "execute" | "validate" | "report" | "done"
    actions,  \* actions: the files to create, augment and replace
    tasks,  \* tasks: (action_type, req) pairs, a file named by its number
    pending,  \* the futures not yet drained from as_completed
    execution_results,  \* results of execute_test_actions_parallel
    val_idx,  \* how many of all_tests validate_and_fix_created_tests has gone through
    validated,  \* validated of validate_and_fix_created_tests
    ens_report,  \* the TestEnsuranceReport (created, augmented, failed, all_passing)
    exec_log,  \* history: (file, outcome) of each drained future
    val_log,  \* history: (file, outcome) of each validated file
    \* ---- update_pattern_tracker (adw_modules/test_doctor.py) ----
    tracker_file,  \* app_docs/testing/pattern_frequency.json: absent, or the map keyed by pattern ID
    clock,  \* the time datetime.now() last returned
    recorded,  \* history: (pattern_id, first_read, last_read) of every match recorded
    \* ---- stripe_webhook (app/server/api/routes/payments.py) ----
    users,  \* the users table: id -> email and referral_credits
    entitlements,  \* the entitlements table, in insertion order
    referrals,  \* the referrals table, in insertion order
    delivered,  \* history: the webhook events delivered, in order
    webhook_response,  \* the status of the last webhook response
    granted,  \* the id of the entitlement grant_entitlement returned last (0: none)
    \* ---- magic links (app/server/services/magic_link.py) ----
    magic_links,  \* the magic_links table, in insertion order
    utc_now,  \* datetime.now(UTC), in minutes
    validations,  \* history: the validate_magic_link calls and what they returned
    link_result,  \* what the last validate_magic_link call returned
    \* ---- access checks (app/server/services/entitlement_service.py) ----
    access_check,  \* the last access check: the function, its arguments and its result
    \* ---- the worker pool of execute_test_actions_parallel (adws/adw_test.py) ----
    pool_tasks,  \* the tasks submitted to the ThreadPoolExecutor
    agent_outcome,  \* per task: how its own agent invocation ends
    worker_pc,  \* per task: where its worker thread is
    transcript_files,  \* output file -> the result lines in it
    future_result,  \* per task: the success flag its future returns and the invocation it came from
    collected,  \* the futures the as_completed loop has handled
    pool_results,  \* results: the lists created / augmented / failed
    \* ---- attempt_test_fix (adws/adw_test.py) ----
    fix_pc,  \* attempt_test_fix: in the loop or returned
    fix_file,  \* where the test file lives
    fix_max_attempts,  \* max_attempts
    fix_attempt,  \* the attempts started so far
    fix_error_output,  \* error_output: the attempt whose re-run produced it (0: the caller's)
    fix_log,  \* history: per attempt, what happened
    fix_result,  \* the value attempt_test_fix returned
    \* ---- determine_actions (adws/adw_test.py) ----
    det_pc,  \* determine_actions: called or returned
    det_categorized,  \* categorized: the lists missing / obviously_broken / needs_validation
    det_validation,  \* validation_results
    det_actions,  \* actions: the lists skip / create / replace / augment
    \* ---- referral status (app/server/services/referral_service.py) ----
    referral_calls,  \* history: the confirm_referral and apply_referral_credit calls
    \* ---- two concurrent stripe_webhook deliveries (app/server/api/routes/payments.py) ----
    con_pc,  \* per delivery: the database call the handler makes next
    con_local  \* per delivery: the handler's locals

modelVars == <<m_pc, slash_command, stored_state, default_model, model>>
agentVars == <<r_pc, max_retries, retry_delays, attempt, last_response, returned,
               last_call, responses, probes, spawns, slept>>
invokeVars == <<i_pc, call, response>>
loopVars == <<t_pc, t_kind, max_attempts, t_attempt, results, passed_count,
              failed_count, test_response, failed_tests, idx, resolved_count,
              unresolved_count, e2e_files, runs, last_run, round_outcomes>>
phaseVars == <<p_pc, script, state_data, disk, exit_code, issue_command, branch_name,
               plan_response, steps, comments>>
testVars == <<skip_e2e, main_results, main_passed_count, main_failed_count,
              main_test_response, e2e_results, e2e_passed_count, e2e_failed_count>>
stateVars == <<all_adws, appended>>
catVars == <<requirements, cat_result>>
ensVars == <<ens_pc, actions, tasks, pending, execution_results, val_idx, validated, ens_report, exec_log, val_log>>
trackerVars == <<tracker_file, clock, recorded>>
payVars == <<users, entitlements, referrals, delivered, webhook_response, granted>>
linkVars == <<magic_links, utc_now, validations, link_result>>
accessVars == <<access_check>>
poolVars == <<pool_tasks, agent_outcome, worker_pc, transcript_files, future_result, collected, pool_results>>
fixVars == <<fix_pc, fix_file, fix_max_attempts, fix_attempt, fix_error_output, fix_log, fix_result>>
detVars == <<det_pc, det_categorized, det_validation, det_actions>>
refVars == <<referral_calls>>
conVars == <<con_pc, con_local>>
vars == <<modelVars, invokeVars, agentVars, loopVars, phaseVars, testVars, stateVars, catVars, ensVars, trackerVars, payVars, linkVars, accessVars, poolVars, fixVars, detVars, refVars, conVars>>

\* What the actions of one subsystem leave alone.
exceptModel == <<invokeVars, agentVars, loopVars, phaseVars, testVars, stateVars, catVars, ensVars, trackerVars, payVars, linkVars, accessVars, poolVars, fixVars, detVars, refVars, conVars>>
exceptInvoke == <<modelVars, agentVars, loopVars, phaseVars, testVars, stateVars, catVars, ensVars, trackerVars, payVars, linkVars, accessVars, poolVars, fixVars, detVars, refVars, conVars>>
exceptAgent == <<modelVars, invokeVars, loopVars, phaseVars, testVars, stateVars, catVars, ensVars, trackerVars, payVars, linkVars, accessVars, poolVars, fixVars, detVars, refVars, conVars>>
exceptLoop == <<modelVars, invokeVars, agentVars, phaseVars, testVars, stateVars, catVars, ensVars, trackerVars, payVars, linkVars, accessVars, poolVars, fixVars, detVars, refVars, conVars>>
exceptPhase == <<modelVars, invokeVars, agentVars, loopVars, testVars, stateVars, catVars, ensVars, trackerVars, payVars, linkVars, accessVars, poolVars, fixVars, detVars, refVars, conVars>>
exceptTest == <<modelVars, invokeVars, agentVars, stateVars, catVars, ensVars, trackerVars, payVars, linkVars, accessVars, poolVars, fixVars, detVars, refVars, conVars>>
exceptCon == <<modelVars, invokeVars, agentVars, loopVars, phaseVars, testVars, stateVars, catVars, ensVars, trackerVars, payVars, linkVars, accessVars, poolVars, fixVars, detVars, refVars>>
exceptPayCon == <<modelVars, invokeVars, agentVars, loopVars, phaseVars, testVars, stateVars, catVars, ensVars, trackerVars, linkVars, accessVars, poolVars, fixVars, detVars, refVars>>
exceptRef == <<modelVars, invokeVars, agentVars, loopVars, phaseVars, testVars, stateVars, catVars, ensVars, trackerVars, payVars, linkVars, accessVars, poolVars, fixVars, detVars, conVars>>
exceptPayRef == <<modelVars, invokeVars, agentVars, loopVars, phaseVars, testVars, stateVars, catVars, ensVars, trackerVars, linkVars, accessVars, poolVars, fixVars, detVars, conVars>>
exceptDet == <<modelVars, invokeVars, agentVars, loopVars, phaseVars, testVars, stateVars, catVars, ensVars, trackerVars, payVars, linkVars, accessVars, poolVars, fixVars, refVars, conVars>>
exceptFix == <<modelVars, invokeVars, agentVars, loopVars, phaseVars, testVars, stateVars, catVars, ensVars, trackerVars, payVars, linkVars, accessVars, poolVars, detVars, refVars, conVars>>
exceptPool == <<modelVars, invokeVars, agentVars, loopVars, phaseVars, testVars, stateVars, catVars, ensVars, trackerVars, payVars, linkVars, accessVars, fixVars, detVars, refVars, conVars>>
exceptAccess == <<modelVars, invokeVars, agentVars, loopVars, phaseVars, testVars, stateVars, catVars, ensVars, trackerVars, payVars, linkVars, poolVars, fixVars, detVars, refVars, conVars>>
exceptPayAccess == <<modelVars, invokeVars, agentVars, loopVars, phaseVars, testVars, stateVars, catVars, ensVars, trackerVars, linkVars, poolVars, fixVars, detVars, refVars, conVars>>
exceptLink == <<modelVars, invokeVars, agentVars, loopVars, phaseVars, testVars, stateVars, catVars, ensVars, trackerVars, payVars, accessVars, poolVars, fixVars, detVars, refVars, conVars>>
exceptPay == <<modelVars, invokeVars, agentVars, loopVars, phaseVars, testVars, stateVars, catVars, ensVars, trackerVars, linkVars, accessVars, poolVars, fixVars, detVars, refVars, conVars>>
exceptTracker == <<modelVars, invokeVars, agentVars, loopVars, phaseVars, testVars, stateVars, catVars, ensVars, payVars, linkVars, accessVars, poolVars, fixVars, detVars, refVars, conVars>>
exceptEns == <<modelVars, invokeVars, agentVars, loopVars, phaseVars, testVars, stateVars, catVars, trackerVars, payVars, linkVars, accessVars, poolVars, fixVars, detVars, refVars, conVars>>
exceptCat == <<modelVars, invokeVars, agentVars, loopVars, phaseVars, testVars, stateVars, ensVars, trackerVars, payVars, linkVars, accessVars, poolVars, fixVars, detVars, refVars, conVars>>
exceptState == <<modelVars, invokeVars, agentVars, loopVars, phaseVars, testVars, catVars, ensVars, trackerVars, payVars, linkVars, accessVars, poolVars, fixVars, detVars, refVars, conVars>>

(***************************************************************************)
(* Python helpers.                                                         *)
(***************************************************************************)
\* dict.get(key, default)
DictGet(d, key, dflt) == IF key \in DOMAIN d THEN d[key] ELSE dflt

Last(s) == s[Len(s)]

RECURSIVE SeqsUpTo(_, _)
SeqsUpTo(S, n) ==
    IF n = 0 THEN {<<>>}
    ELSE LET shorter == SeqsUpTo(S, n - 1)
         IN  shorter \cup {Append(s, x) : s \in {t \in shorter : Len(t) = n - 1}, x \in S}

(***************************************************************************)
(* Model resolution: agent.py, SLASH_COMMAND_MODEL_MAP and                 *)
(* get_model_for_slash_command.                                            *)
(***************************************************************************)
SLASH_COMMAND_MODEL_MAP ==
    ( "/classify_issue" :> [base |-> "sonnet", heavy |-> "sonnet"] ) @@
    ( "/classify_adw" :> [base |-> "sonnet", heavy |-> "sonnet"] ) @@
    ( "/generate_branch_name" :> [base |-> "sonnet", heavy |-> "sonnet"] ) @@
    ( "/implement" :> [base |-> "sonnet", heavy |-> "opus"] ) @@
    ( "/test" :> [base |-> "sonnet", heavy |-> "sonnet"] ) @@
    ( "/resolve_failed_test" :> [base |-> "sonnet", heavy |-> "opus"] ) @@
    ( "/test_e2e" :> [base |-> "sonnet", heavy |-> "sonnet"] ) @@
    ( "/resolve_failed_e2e_test" :> [base |-> "sonnet", heavy |-> "opus"] ) @@
    ( "/review" :> [base |-> "sonnet", heavy |-> "sonnet"] ) @@
    ( "/document" :> [base |-> "sonnet", heavy |-> "opus"] ) @@
    ( "/commit" :> [base |-> "sonnet", heavy |-> "sonnet"] ) @@
    ( "/pull_request" :> [base |-> "sonnet", heavy |-> "sonnet"] ) @@
    ( "/chore" :> [base |-> "sonnet", heavy |-> "opus"] ) @@
    ( "/bug" :> [base |-> "sonnet", heavy |-> "opus"] ) @@
    ( "/feature" :> [base |-> "sonnet", heavy |-> "opus"] ) @@
    ( "/patch" :> [base |-> "sonnet", heavy |-> "opus"] ) @@
    ( "/extract_test_requirements" :> [base |-> "sonnet", heavy |-> "sonnet"] ) @@
    ( "/validate_test_batch" :> [base |-> "sonnet", heavy |-> "sonnet"] ) @@
    ( "/create_test" :> [base |-> "sonnet", heavy |-> "opus"] ) @@
    ( "/augment_test" :> [base |-> "sonnet", heavy |-> "opus"] ) @@
    ( "/fix_test" :> [base |-> "sonnet", heavy |-> "opus"] ) @@
    ( "/test_doctor" :> [base |-> "sonnet", heavy |-> "sonnet"] )

\* Commands a request can carry that the map does not list.
UnmappedCommands == {"/plan_iso", "/unknown"}

SlashCommands == DOMAIN SLASH_COMMAND_MODEL_MAP \cup UnmappedCommands

\* The state file of a run: absent, or a dict that may hold model_set.
EmptyDict == [k \in {} |-> ""]

StoredStates ==
    {[exists |-> FALSE, data |-> EmptyDict]} \cup
    {[exists |-> TRUE, data |-> d] :
        d \in {EmptyDict, [model_set |-> "base"], [model_set |-> "heavy"]}}

DefaultModels == {"sonnet", "haiku"}

\* ADWState.load(adw_id): the record when the file exists, else None.
ADWStateLoad(st) == IF st.exists THEN st.data ELSE "None"

get_model_for_slash_command_wrong_tier(cmd, st, dflt) ==
    IF cmd \in DOMAIN SLASH_COMMAND_MODEL_MAP
    THEN SLASH_COMMAND_MODEL_MAP[cmd]["base"]
    ELSE dflt

get_model_for_slash_command(cmd, st, dflt) ==
    LET model_set == IF st.exists
                     THEN DictGet(ADWStateLoad(st), "model_set", "base")
                     ELSE "base"
    IN  IF cmd \in DOMAIN SLASH_COMMAND_MODEL_MAP
        THEN LET command_config == SLASH_COMMAND_MODEL_MAP[cmd]
             IN  DictGet(command_config, model_set,
                         DictGet(command_config, "base", dflt))
        ELSE dflt

ModelIdle ==
    /\ m_pc = "idle"
    /\ slash_command = "/test"
    /\ stored_state = [exists |-> FALSE, data |-> EmptyDict]
    /\ default_model = "sonnet"
    /\ model = "None"

ModelInit ==
    /\ m_pc = "request"
    /\ slash_command \in SlashCommands
    /\ stored_state \in StoredStates
    /\ default_model \in DefaultModels
    /\ model = "None"

\* One call of get_model_for_slash_command(request, default).
ResolveModel ==
    /\ m_pc = "request"
    /\ model' = get_model_for_slash_command(slash_command, stored_state, default_model)
    /\ m_pc' = "resolved"
    /\ UNCHANGED <<slash_command, stored_state, default_model>>
    /\ UNCHANGED exceptModel

(***************************************************************************)
(* One agent invocation: agent.py, check_claude_installed,                 *)
(* parse_jsonl_output and prompt_claude_code.                              *)
(***************************************************************************)
\* What json.loads makes of one line of the transcript file:
\*   "blank"     the line is empty after strip()             (skipped)
\*   "malformed" json.loads raises JSONDecodeError           (skipped)
\*   "value"     valid JSON that is not an object (42, [], "x")
\*   "object"    a JSON object; absent keys are "absent"
NoFields == [type |-> "absent", subtype |-> "absent", is_error |-> "absent",
             session_id |-> "absent"]

BlankLine     == [k |-> "blank"] @@ NoFields
MalformedLine == [k |-> "malformed"] @@ NoFields
ValueLine     == [k |-> "value"] @@ NoFields
AssistantLine == [k |-> "object", type |-> "assistant", subtype |-> "absent",
                  is_error |-> "absent", session_id |-> "s1"]

ResultLines ==
    {[k |-> "object", type |-> "result", subtype |-> st, is_error |-> ie,
      session_id |-> sid] :
        st \in {"success", "error_during_execution"},
        ie \in {"true", "false", "absent"},
        sid \in {"s1", "absent"}}

Lines == {BlankLine, MalformedLine, ValueLine, AssistantLine} \cup ResultLines

Transcripts == SeqsUpTo(Lines, MaxLines)

\* The environment of one prompt_claude_code call: the version probe, the way
\* subprocess.run of the agent ends, and the transcript it leaves.
Outcomes == {"exit_zero", "exit_nonzero", "exception"}

Calls == [installed : BOOLEAN, outcome : Outcomes, transcript : Transcripts]

\* The calls the retry loop is run against: one transcript for each way a
\* call can end (raw fallback, success, error flag, execution error).
ResultLine(st, ie) ==
    [k |-> "object", type |-> "result", subtype |-> st, is_error |-> ie,
     session_id |-> "s1"]

RetryTranscripts ==
    {<<>>, <<MalformedLine>>, <<AssistantLine, ResultLine("success", "false")>>,
     <<ResultLine("success", "true")>>,
     <<ResultLine("error_during_execution", "false")>>}

RetryCalls == [installed : BOOLEAN, outcome : Outcomes, transcript : RetryTranscripts]

NoCall == [installed |-> FALSE, outcome |-> "exception", transcript |-> <<>>]

\* AgentPromptResponse(output, success, session_id)
Response(kind, raw, success, session_id) ==
    [output |-> [kind |-> kind, raw |-> raw], success |-> success,
     session_id |-> session_id]

NoneResponse == Response("None", <<>>, FALSE, "None")

check_claude_installed_ignored(c) == "None"

\* check_claude_installed(): an error message when the probe fails, else None.
check_claude_installed(c) ==
    IF c.installed THEN "None" ELSE "Error: Claude Code CLI is not installed"

IsParsed(line) == line.k \in {"object", "value"}

\* `for message in reversed(messages)`: message.get raises on a value that is
\* not an object, and the outer `except Exception` then returns None.
RECURSIVE FindResult(_, _)
FindResult(messages, i) ==
    IF i = 0 THEN [found |-> FALSE, msg |-> BlankLine]
    ELSE IF messages[i].k = "value" THEN [found |-> FALSE, msg |-> BlankLine]
    ELSE IF messages[i].type = "result" THEN [found |-> TRUE, msg |-> messages[i]]
    ELSE FindResult(messages, i - 1)

parse_jsonl_output(transcript) ==
    LET messages == SelectSeq(transcript, IsParsed)
    IN  [messages |-> messages, result_message |-> FindResult(messages, Len(messages))]

\* result_message.get("session_id")
GetSessionId(msg) == IF msg.session_id = "absent" THEN "None" ELSE msg.session_id

\* result_message.get("is_error", False)
GetIsError(msg) == msg.is_error = "true"

\* Whether the c reaches subprocess.run of the agent command.
Spawns(c) == check_claude_installed(c) = "None"

\* Lines 339-345: no result message, the raw transcript is the output.
RawFallback_as_failure(c) == Response("raw", c.transcript, FALSE, "None")

RawFallback(c) == Response("raw", c.transcript, TRUE, "None")

\* Lines 319-338: the result message decides.
ResultResponse(msg) ==
    IF msg.subtype = "error_during_execution"
    THEN Response("error_during_execution", <<>>, FALSE, GetSessionId(msg))
    ELSE Response("result", <<>>, ~GetIsError(msg), GetSessionId(msg))

prompt_claude_code(c) ==
    IF check_claude_installed(c) # "None"
    THEN Response("not_installed", <<>>, FALSE, "None")
    ELSE IF c.outcome = "exception"
    THEN Response("exception", <<>>, FALSE, "None")
    ELSE IF c.outcome = "exit_zero"
    THEN LET parsed == parse_jsonl_output(c.transcript)
         IN  IF parsed.result_message.found
             THEN ResultResponse(parsed.result_message.msg)
             ELSE RawFallback(c)
    ELSE Response("claude_error", <<>>, FALSE, "None")

InvokeIdle ==
    /\ i_pc = "idle"
    /\ call = NoCall
    /\ response = NoneResponse

InvokeInit ==
    /\ i_pc = "ready"
    /\ call \in Calls
    /\ response = NoneResponse

\* One call of prompt_claude_code(request).
Invoke ==
    /\ i_pc = "ready"
    /\ response' = prompt_claude_code(call)
    /\ i_pc' = "done"
    /\ UNCHANGED call
    /\ UNCHANGED exceptInvoke

(***************************************************************************)
(* The retry wrapper: agent.py, prompt_claude_code_with_retry.             *)
(***************************************************************************)
\* `while len(retry_delays) < max_retries: retry_delays.append(last + 2)`
RECURSIVE ExtendDelays(_, _)
ExtendDelays(delays, n) ==
    IF Len(delays) < n THEN ExtendDelays(Append(delays, Last(delays) + 2), n)
    ELSE delays

\* The retry_delays argument: None (the default [1, 3, 5]) or a caller's list.
DelayArgs == {[given |-> FALSE, list |-> <<>>], [given |-> TRUE, list |-> <<2>>]}

MaxRetriesArgs == (0 .. MaxRetriesArg) \cup {DefaultMaxRetries}

AttemptRange_without_initial(n) == n

\* range(max_retries + 1)
AttemptRange(n) == n + 1

AgentIdle ==
    /\ r_pc = "idle"
    /\ max_retries = 0
    /\ retry_delays = [given |-> FALSE, list |-> <<>>]
    /\ attempt = 0
    /\ last_response = NoneResponse
    /\ returned = NoneResponse
    /\ last_call = NoCall
    /\ responses = <<>>
    /\ probes = 0
    /\ spawns = 0
    /\ slept = <<>>

AgentInit ==
    /\ r_pc = "called"
    /\ max_retries \in MaxRetriesArgs
    /\ retry_delays \in DelayArgs
    /\ attempt = 0
    /\ last_response = NoneResponse
    /\ returned = NoneResponse
    /\ last_call = NoCall
    /\ responses = <<>>
    /\ probes = 0
    /\ spawns = 0
    /\ slept = <<>>

\* Lines 236-243: the default delays, their extension, last_response = None.
EnterRetry ==
    /\ r_pc = "called"
    /\ retry_delays' = [given |-> TRUE,
                        list |-> ExtendDelays(IF retry_delays.given
                                              THEN retry_delays.list
                                              ELSE <<1, 3, 5>>, max_retries)]
    /\ last_response' = NoneResponse
    /\ attempt' = 0
    /\ IF 0 < AttemptRange(max_retries)
       THEN r_pc' = "loop" /\ returned' = returned
       ELSE r_pc' = "returned" /\ returned' = NoneResponse
    /\ UNCHANGED <<max_retries, last_call, responses, probes, spawns, slept>>
    /\ UNCHANGED exceptAgent

\* Lines 245-266: one iteration of the for loop, with one prompt_claude_code call.
Attempt ==
    /\ r_pc = "loop"
    /\ attempt < AttemptRange(max_retries)
    /\ \E c \in RetryCalls :
          LET resp == prompt_claude_code(c)
          IN  /\ slept' = IF attempt > 0
                          THEN Append(slept, retry_delays.list[attempt])
                          ELSE slept
              /\ last_call' = c
              /\ probes' = probes + 1
              /\ spawns' = IF Spawns(c) THEN spawns + 1 ELSE spawns
              /\ last_response' = resp
              /\ responses' = Append(responses, resp.success)
              /\ IF resp.success
                 THEN /\ returned' = resp
                      /\ r_pc' = "returned"
                      /\ attempt' = attempt
                 ELSE IF attempt < max_retries
                 THEN IF attempt + 1 < AttemptRange(max_retries)
                      THEN /\ returned' = returned
                           /\ r_pc' = "loop"
                           /\ attempt' = attempt + 1
                      ELSE \* line 266: the range is exhausted
                           /\ returned' = resp
                           /\ r_pc' = "returned"
                           /\ attempt' = attempt
                 ELSE /\ returned' = resp
                      /\ r_pc' = "returned"
                      /\ attempt' = attempt
    /\ UNCHANGED <<max_retries, retry_delays>>
    /\ UNCHANGED exceptAgent

(***************************************************************************)
(* The test-resolution loops: adw_test.py, run_tests_with_resolution,      *)
(* resolve_failed_tests, run_e2e_tests, run_e2e_tests_with_resolution and  *)
(* resolve_failed_e2e_tests.                                               *)
(***************************************************************************)
\* sum(1 for test in results if test.passed)
CountPassed(rs) == Cardinality({i \in 1 .. Len(rs) : rs[i]})

\* [test for test in results if not test.passed]
IsFailed(passed) == ~passed

FailedTests(rs) == SelectSeq(rs, IsFailed)

\* What one run of the /test command gives: the response's success flag and
\* its output, which parses to a list of test results or does not parse.
UnitRuns ==
    [success : BOOLEAN, parses : BOOLEAN, tests : SeqsUpTo(BOOLEAN, MaxTests)]

\* parse_test_results(output): (results, passed_count, failed_count), and
\* ([], 0, 0) when parsing raises.
parse_test_results(run) ==
    IF run.parses
    THEN [results |-> run.tests, passed_count |-> CountPassed(run.tests),
          failed_count |-> Len(run.tests) - CountPassed(run.tests)]
    ELSE [results |-> <<>>, passed_count |-> 0, failed_count |-> 0]

\* How one E2E test file ends in execute_single_e2e_test: the agent call
\* fails, its output does not parse, or it parses to a status.
E2EOutcomes == {"tool_error", "parse_error", "failed", "passed"}

\* execute_single_e2e_test(...).passed
execute_single_e2e_test(outcome) == outcome = "passed"

\* run_e2e_tests: the files run in order, stopping at the first failure.
RECURSIVE run_e2e_tests(_, _)
run_e2e_tests(outcomes, i) ==
    IF i > Len(outcomes) THEN <<>>
    ELSE LET passed == execute_single_e2e_test(outcomes[i])
         IN  IF passed THEN <<passed>> \o run_e2e_tests(outcomes, i + 1)
             ELSE <<passed>>

NextAttempt_not_counted(a) == a

\* `attempt += 1`
NextAttempt(a) == a + 1

ShouldRerun_always(resolved) == TRUE

\* `if resolved > 0:` ... else break
ShouldRerun(resolved) == resolved > 0

DefaultAttempts(kind) ==
    IF kind = "unit" THEN MAX_TEST_RETRY_ATTEMPTS ELSE MAX_E2E_TEST_RETRY_ATTEMPTS

LoopIdle ==
    /\ t_pc = "idle"
    /\ t_kind = "unit"
    /\ max_attempts = 0
    /\ t_attempt = 0
    /\ results = <<>>
    /\ passed_count = 0
    /\ failed_count = 0
    /\ test_response = "None"
    /\ failed_tests = <<>>
    /\ idx = 0
    /\ resolved_count = 0
    /\ unresolved_count = 0
    /\ e2e_files = 0
    /\ runs = 0
    /\ last_run = "none"
    /\ round_outcomes = <<>>

\* The call of either loop with the given max_attempts: its locals at the
\* first line (lines 378-382 / 732-735).
EnterLoop(kind, n) ==
    /\ t_pc' = "run"
    /\ t_kind' = kind
    /\ max_attempts' = n
    /\ t_attempt' = 0
    /\ results' = <<>>
    /\ passed_count' = 0
    /\ failed_count' = 0
    /\ test_response' = "None"
    /\ failed_tests' = <<>>
    /\ idx' = 0
    /\ resolved_count' = 0
    /\ unresolved_count' = 0
    /\ runs' = 0
    /\ last_run' = "none"
    /\ round_outcomes' = <<>>
    /\ UNCHANGED e2e_files

\* The locals of either loop at its first line, for a call with the given
\* max_attempts.
LoopEntered(kind, n) ==
    /\ t_pc = "run"
    /\ t_kind = kind
    /\ max_attempts = n
    /\ t_attempt = 0
    /\ results = <<>>
    /\ passed_count = 0
    /\ failed_count = 0
    /\ test_response = "None"
    /\ failed_tests = <<>>
    /\ idx = 0
    /\ resolved_count = 0
    /\ unresolved_count = 0
    /\ runs = 0
    /\ last_run = "none"
    /\ round_outcomes = <<>>

LoopInit ==
    \E kind \in {"unit", "e2e"} :
        /\ \E n \in (0 .. MaxAttemptsArg) \cup {DefaultAttempts(kind)} :
              LoopEntered(kind, n)
        /\ e2e_files \in (IF kind = "unit" THEN {0} ELSE 0 .. MaxE2EFiles)

\* What follows the counting of a run's results (lines 409-429 / 752-774).
AfterCount(fc, rs, att) ==
    IF fc = 0 \/ att = max_attempts
    THEN /\ t_pc' = "done"
         /\ UNCHANGED <<failed_tests, idx, resolved_count, unresolved_count,
                        round_outcomes>>
    ELSE /\ t_pc' = "resolve"
         /\ failed_tests' = FailedTests(rs)
         /\ idx' = 0
         /\ resolved_count' = 0
         /\ unresolved_count' = 0
         /\ round_outcomes' = <<>>

\* `while attempt < max_attempts` is false: the loop ends.
LoopExit ==
    /\ t_pc = "run"
    /\ ~(t_attempt < max_attempts)
    /\ t_pc' = "done"
    /\ UNCHANGED <<t_kind, max_attempts, t_attempt, results, passed_count,
                   failed_count, test_response, failed_tests, idx, resolved_count,
                   unresolved_count, e2e_files, runs, last_run, round_outcomes>>
    /\ UNCHANGED exceptLoop

\* Lines 384-415: one attempt of run_tests_with_resolution up to the
\* resolution round.
RunTests ==
    /\ t_pc = "run"
    /\ t_kind = "unit"
    /\ t_attempt < max_attempts
    /\ t_attempt' = NextAttempt(t_attempt)
    /\ runs' = runs + 1
    /\ \E run \in UnitRuns :
          IF ~run.success
          THEN /\ test_response' = "failure"
               /\ last_run' = "tool_error"
               /\ t_pc' = "done"
               /\ UNCHANGED <<results, passed_count, failed_count, failed_tests, idx,
                              resolved_count, unresolved_count, round_outcomes>>
          ELSE LET parsed == parse_test_results(run)
               IN  /\ test_response' = "success"
                   /\ last_run' = IF ~run.parses THEN "unparsed"
                                  ELSE IF parsed.failed_count = 0 THEN "no_failures"
                                  ELSE "failures"
                   /\ results' = parsed.results
                   /\ passed_count' = parsed.passed_count
                   /\ failed_count' = parsed.failed_count
                   /\ AfterCount(parsed.failed_count, parsed.results, t_attempt')
    /\ UNCHANGED <<t_kind, max_attempts, e2e_files>>
    /\ UNCHANGED exceptLoop

\* Lines 737-774: one attempt of run_e2e_tests_with_resolution up to the
\* resolution round.
RunE2ETests ==
    /\ t_pc = "run"
    /\ t_kind = "e2e"
    /\ t_attempt < max_attempts
    /\ t_attempt' = NextAttempt(t_attempt)
    /\ runs' = runs + 1
    /\ \E outcomes \in [1 .. e2e_files -> E2EOutcomes] :
          LET rs == run_e2e_tests(outcomes, 1)
          IN  /\ results' = rs
              /\ IF rs = <<>>
                 THEN /\ last_run' = "no_results"
                      /\ t_pc' = "done"
                      /\ UNCHANGED <<passed_count, failed_count, failed_tests, idx,
                                     resolved_count, unresolved_count, round_outcomes>>
                 ELSE /\ last_run' = IF Len(rs) - CountPassed(rs) = 0
                                     THEN "no_failures" ELSE "failures"
                      /\ passed_count' = CountPassed(rs)
                      /\ failed_count' = Len(rs) - CountPassed(rs)
                      /\ AfterCount(Len(rs) - CountPassed(rs), rs, t_attempt')
    /\ UNCHANGED <<t_kind, max_attempts, test_response, e2e_files>>
    /\ UNCHANGED exceptLoop

\* resolve_failed_tests / resolve_failed_e2e_tests: one iteration of the for
\* loop, one resolver call.
ResolveOne ==
    /\ t_pc = "resolve"
    /\ idx < Len(failed_tests)
    /\ \E success \in BOOLEAN :
          /\ resolved_count' = IF success THEN resolved_count + 1 ELSE resolved_count
          /\ unresolved_count' = IF success THEN unresolved_count
                                 ELSE unresolved_count + 1
          /\ round_outcomes' = Append(round_outcomes, success)
    /\ idx' = idx + 1
    /\ UNCHANGED <<t_pc, t_kind, max_attempts, t_attempt, results, passed_count,
                   failed_count, test_response, failed_tests, e2e_files, runs,
                   last_run>>
    /\ UNCHANGED exceptLoop

\* Lines 436-458 / 781-807: the round is over, re-run only if something was
\* resolved.
EndRound ==
    /\ t_pc = "resolve"
    /\ idx = Len(failed_tests)
    /\ t_pc' = IF ShouldRerun(resolved_count) THEN "run" ELSE "done"
    /\ UNCHANGED <<t_kind, max_attempts, t_attempt, results, passed_count,
                   failed_count, test_response, failed_tests, idx, resolved_count,
                   unresolved_count, e2e_files, runs, last_run, round_outcomes>>
    /\ UNCHANGED exceptLoop

LoopNext == LoopExit \/ RunTests \/ RunE2ETests \/ ResolveOne \/ EndRound

(***************************************************************************)
(* The run state as the phase scripts use it (adw_modules/state.py is not  *)
(* part of the sources; load, update and save follow the specification).   *)
(***************************************************************************)
\* A Python value is falsy when it is None or the empty string.
Truthy(v) == v \notin {"None", ""}

NoData == [issue_class |-> "None", branch_name |-> "None", plan_file |-> "None"]

\* state.update(field=value)
StateUpdate(data, field, value) == [data EXCEPT ![field] = value]

\* state.save(phase): the whole in-memory record replaces the file.
StateSave(data) == [exists |-> TRUE, data |-> data]

Step(op, ok) == [op |-> op, ok |-> ok]

IssueClasses == {"/chore", "/bug", "/feature"}

\* classify_issue(issue, adw_id, logger): (command, None) or (None, error)
ClassifyResults == IssueClasses \cup {"error"}

PhaseIdle ==
    /\ p_pc = "idle"
    /\ script = "none"
    /\ state_data = NoData
    /\ disk = [exists |-> FALSE, data |-> NoData]
    /\ exit_code = -1
    /\ issue_command = "None"
    /\ branch_name = "None"
    /\ plan_response = [success |-> FALSE, output |-> ""]
    /\ steps = <<>>
    /\ comments = <<>>

\* The locals of adw_test.py main() before the test loops ran.
TestLocalsIdle ==
    /\ skip_e2e = FALSE
    /\ main_results = <<>>
    /\ main_passed_count = 0
    /\ main_failed_count = 0
    /\ main_test_response = "None"
    /\ e2e_results = <<>>
    /\ e2e_passed_count = 0
    /\ e2e_failed_count = 0

\* sys.exit(code), after the steps and comments of the failing branch
Exit(code, new_steps, new_comments) ==
    /\ p_pc' = "exited"
    /\ exit_code' = code
    /\ steps' = steps \o new_steps
    /\ comments' = comments \o new_comments
    /\ UNCHANGED <<script, state_data, disk, issue_command, branch_name, plan_response>>

(***************************************************************************)
(* The Plan phase: adw_plan.py, main.                                      *)
(***************************************************************************)
\* The state ensure_adw_id finds or creates: a fresh run, or the record of
\* an earlier run of the same run ID.
PlanInitialData ==
    [issue_class : {"None", "/chore"}, branch_name : {"None", "old-branch"},
     plan_file : {"None", "specs/old.md"}]

\* What build_plan returns: a failure, or a success whose output is the path.
PlanResponses ==
    [success : BOOLEAN, output : {"", "specs/plan.md", "specs/ghost.md"}]

PathExists_unchecked(path) == TRUE

\* os.path.exists(plan_file_path): specs/plan.md is the one file on disk
PathExists(path) == path = "specs/plan.md"

CreateBranchFailed_unchecked(success) == FALSE

\* `if not success:` after create_branch (line 178)
CreateBranchFailed(success) == ~success

PlanInit ==
    /\ p_pc = "check_env"
    /\ script = "plan"
    /\ state_data \in PlanInitialData
    /\ disk = StateSave(state_data)
    /\ exit_code = -1
    /\ issue_command = "None"
    /\ branch_name = "None"
    /\ plan_response = [success |-> FALSE, output |-> ""]
    /\ steps = <<>>
    /\ comments = <<>>

\* Lines 109-132: check_env_vars, get_repo_url, fetch_issue, first comments.
PlanPreconditions ==
    /\ script = "plan" /\ p_pc = "check_env"
    /\ \E env_ok \in BOOLEAN, repo_ok \in BOOLEAN :
          IF ~env_ok \/ ~repo_ok
          THEN Exit(1, <<>>, <<>>)
          ELSE /\ p_pc' = "classify"
               /\ comments' = comments \o <<"ops: Starting planning phase", "ops: Using state">>
               /\ UNCHANGED <<script, state_data, disk, exit_code, issue_command,
                              branch_name, plan_response, steps>>
    /\ UNCHANGED exceptPhase

\* Lines 137-156: classify the issue, save issue_class.
PlanClassify ==
    /\ script = "plan" /\ p_pc = "classify"
    /\ \E res \in ClassifyResults :
          IF res = "error"
          THEN Exit(1, <<Step("classify_issue", FALSE)>>, <<"ops: Error classifying issue">>)
          ELSE /\ issue_command' = res
               /\ state_data' = StateUpdate(state_data, "issue_class", res)
               /\ disk' = StateSave(state_data')
               /\ steps' = steps \o <<Step("classify_issue", TRUE), Step("state.save", TRUE)>>
               /\ comments' = Append(comments, "ops: Issue classified")
               /\ p_pc' = "generate_branch_name"
               /\ UNCHANGED <<script, exit_code, branch_name, plan_response>>
    /\ UNCHANGED exceptPhase

\* Lines 161-173: generate the branch name.
PlanGenerateBranchName ==
    /\ script = "plan" /\ p_pc = "generate_branch_name"
    /\ \E ok \in BOOLEAN :
          IF ~ok
          THEN Exit(1, <<Step("generate_branch_name", FALSE)>>,
                    <<"ops: Error generating branch name">>)
          ELSE /\ branch_name' = "feat-issue-1-adw-a"
               /\ steps' = Append(steps, Step("generate_branch_name", TRUE))
               /\ p_pc' = "create_branch"
               /\ UNCHANGED <<script, state_data, disk, exit_code, issue_command,
                              plan_response, comments>>
    /\ UNCHANGED exceptPhase

\* Lines 175-195: create the git branch, save branch_name.
PlanCreateBranch ==
    /\ script = "plan" /\ p_pc = "create_branch"
    /\ \E success \in BOOLEAN :
          IF CreateBranchFailed(success)
          THEN Exit(1, <<Step("create_branch", FALSE)>>, <<"ops: Error creating branch">>)
          ELSE /\ state_data' = StateUpdate(state_data, "branch_name", branch_name)
               /\ disk' = StateSave(state_data')
               /\ steps' = steps \o <<Step("create_branch", success), Step("state.save", TRUE)>>
               /\ comments' = Append(comments, "ops: Working on branch")
               /\ p_pc' = "build_plan"
               /\ UNCHANGED <<script, exit_code, issue_command, branch_name, plan_response>>
    /\ UNCHANGED exceptPhase

\* Lines 200-224: run the planning command.
PlanBuildPlan ==
    /\ script = "plan" /\ p_pc = "build_plan"
    /\ \E resp \in PlanResponses :
          IF ~resp.success
          THEN Exit(1, <<Step("build_plan", FALSE)>>,
                    <<"sdlc_planner: Building implementation plan",
                      "sdlc_planner: Error building plan">>)
          ELSE /\ plan_response' = resp
               /\ steps' = Append(steps, Step("build_plan", TRUE))
               /\ comments' = comments \o <<"sdlc_planner: Building implementation plan",
                                            "sdlc_planner: Implementation plan created">>
               /\ p_pc' = "validate_plan_path"
               /\ UNCHANGED <<script, state_data, disk, exit_code, issue_command,
                              branch_name>>
    /\ UNCHANGED exceptPhase

\* Lines 226-259: the path must be non-empty and exist; save plan_file.
PlanValidatePath ==
    /\ script = "plan" /\ p_pc = "validate_plan_path"
    /\ LET plan_file_path == plan_response.output
       IN  IF plan_file_path = ""
           THEN Exit(1, <<Step("validate_plan_path", FALSE)>>,
                     <<"ops: No plan file path returned from planning agent">>)
           ELSE IF ~PathExists(plan_file_path)
           THEN Exit(1, <<Step("validate_plan_path", FALSE)>>,
                     <<"ops: Plan file does not exist">>)
           ELSE /\ state_data' = StateUpdate(state_data, "plan_file", plan_file_path)
                /\ disk' = StateSave(state_data')
                /\ steps' = steps \o <<Step("validate_plan_path", TRUE), Step("state.save", TRUE)>>
                /\ comments' = Append(comments, "ops: Plan file created")
                /\ p_pc' = "create_commit"
                /\ UNCHANGED <<script, exit_code, issue_command, branch_name, plan_response>>
    /\ UNCHANGED exceptPhase

\* Lines 264-299: create the commit message and commit the plan.
PlanCommit ==
    /\ script = "plan" /\ p_pc = "create_commit"
    /\ \E message_ok \in BOOLEAN, success \in BOOLEAN :
          IF ~message_ok
          THEN Exit(1, <<Step("create_commit", FALSE)>>,
                    <<"sdlc_planner: Error creating commit message">>)
          ELSE IF ~success
          THEN Exit(1, <<Step("create_commit", TRUE), Step("commit_changes", FALSE)>>,
                    <<"sdlc_planner: Error committing plan">>)
          ELSE /\ steps' = steps \o <<Step("create_commit", TRUE), Step("commit_changes", TRUE)>>
               /\ comments' = Append(comments, "sdlc_planner: Plan committed")
               /\ p_pc' = "finalize"
               /\ UNCHANGED <<script, state_data, disk, exit_code, issue_command,
                              branch_name, plan_response>>
    /\ UNCHANGED exceptPhase

\* Lines 301-319: push and PR (its result is not returned to main), the
\* final save and comments; main returns, exit code 0.
PlanFinalize ==
    /\ script = "plan" /\ p_pc = "finalize"
    /\ disk' = StateSave(state_data)
    /\ steps' = steps \o <<Step("finalize_git_operations", TRUE), Step("state.save", TRUE)>>
    /\ comments' = comments \o <<"ops: Planning phase completed", "ops: Final planning state">>
    /\ p_pc' = "exited"
    /\ exit_code' = 0
    /\ UNCHANGED <<script, state_data, issue_command, branch_name, plan_response>>
    /\ UNCHANGED exceptPhase

PlanNext ==
    \/ PlanPreconditions
    \/ PlanClassify
    \/ PlanGenerateBranchName
    \/ PlanCreateBranch
    \/ PlanBuildPlan
    \/ PlanValidatePath
    \/ PlanCommit
    \/ PlanFinalize

(***************************************************************************)
(* The Build phase: adw_build.py and adw_build_iso.py, main.               *)
(***************************************************************************)
\* The state file the Build phase finds for the run ID given on the command
\* line: none, or a record whose fields may be missing or empty.
BuildDisks ==
    {[exists |-> FALSE, data |-> NoData]} \cup
    {[exists |-> TRUE, data |-> d] :
        d \in [issue_class : {"None", "/bug"},
               branch_name : {"None", "", "feat-issue-1-adw-a"},
               plan_file : {"None", "", "specs/plan.md"}]}

RequiredFieldMissing_only_none(v) == v = "None"

\* `if not state.get("branch_name"):` / `if not state.get("plan_file"):`
RequiredFieldMissing(v) == ~Truthy(v)

BuildInit ==
    /\ p_pc = "load_state"
    /\ script \in {"build", "build_iso"}
    /\ state_data = NoData
    /\ disk \in BuildDisks
    /\ exit_code = -1
    /\ issue_command = "None"
    /\ branch_name = "None"
    /\ plan_response = [success |-> FALSE, output |-> ""]
    /\ steps = <<>>
    /\ comments = <<>>

IsBuild == script \in {"build", "build_iso"}

\* adw_build.py 67-84, adw_build_iso.py 71-91: load the state or give up.
BuildLoadState ==
    /\ IsBuild /\ p_pc = "load_state"
    /\ IF disk.exists
       THEN /\ state_data' = disk.data
            /\ comments' = Append(comments, "ops: Found existing state")
            /\ p_pc' = "check_environment"
            /\ UNCHANGED <<script, disk, exit_code, issue_command, branch_name,
                           plan_response, steps>>
       ELSE Exit(1, <<>>, <<>>)
    /\ UNCHANGED exceptPhase

\* adw_build.py 93-103, adw_build_iso.py 100-130: check_env_vars, the
\* worktree validation of the isolated variant, get_repo_url.
BuildCheckEnvironment ==
    /\ IsBuild /\ p_pc = "check_environment"
    /\ \E env_ok \in BOOLEAN, worktree_ok \in BOOLEAN, repo_ok \in BOOLEAN :
          IF ~env_ok
          THEN Exit(1, <<>>, <<>>)
          ELSE IF script = "build_iso" /\ ~worktree_ok
          THEN Exit(1, <<>>, <<"ops: Worktree validation failed">>)
          ELSE IF ~repo_ok
          THEN Exit(1, <<>>, <<>>)
          ELSE /\ p_pc' = "require_fields"
               /\ UNCHANGED <<script, state_data, disk, exit_code, issue_command,
                              branch_name, plan_response, steps, comments>>
    /\ UNCHANGED exceptPhase

\* adw_build.py 105-122, adw_build_iso.py 132-149: the required fields.
BuildRequireFields ==
    /\ IsBuild /\ p_pc = "require_fields"
    /\ IF RequiredFieldMissing(state_data.branch_name)
       THEN Exit(1, <<>>, <<"ops: No branch name in state">>)
       ELSE IF RequiredFieldMissing(state_data.plan_file)
       THEN Exit(1, <<>>, <<"ops: No plan file in state">>)
       ELSE /\ p_pc' = "checkout"
            /\ UNCHANGED <<script, state_data, disk, exit_code, issue_command,
                           branch_name, plan_response, steps, comments>>
    /\ UNCHANGED exceptPhase

\* adw_build.py 127-148, adw_build_iso.py 154-181: git checkout of the branch.
BuildCheckout ==
    /\ IsBuild /\ p_pc = "checkout"
    /\ \E ok \in BOOLEAN :
          IF ~ok
          THEN /\ Exit(1, <<Step("git_checkout", FALSE)>>, <<"ops: Failed to checkout branch">>)
          ELSE /\ branch_name' = state_data.branch_name
               /\ steps' = Append(steps, Step("git_checkout", TRUE))
               /\ comments' = Append(comments, "ops: Starting implementation phase")
               /\ p_pc' = "implement"
               /\ UNCHANGED <<script, state_data, disk, exit_code, issue_command,
                              plan_response>>
    /\ UNCHANGED exceptPhase

\* adw_build.py 153-175, adw_build_iso.py 186-208: the implementation command.
BuildImplement ==
    /\ IsBuild /\ p_pc = "implement"
    /\ \E success \in BOOLEAN :
          IF ~success
          THEN Exit(1, <<Step("implement_plan", FALSE)>>,
                    <<"sdlc_implementor: Implementing solution",
                      "sdlc_implementor: Error implementing solution">>)
          ELSE /\ steps' = Append(steps, Step("implement_plan", TRUE))
               /\ comments' = comments \o <<"sdlc_implementor: Implementing solution",
                                            "sdlc_implementor: Solution implemented">>
               /\ p_pc' = "classify"
               /\ UNCHANGED <<script, state_data, disk, exit_code, issue_command,
                              branch_name, plan_response>>
    /\ UNCHANGED exceptPhase

\* adw_build.py 177-196, adw_build_iso.py 210-229: the classification is
\* taken from the state, or derived and saved, or defaults to /feature.
BuildClassify ==
    /\ IsBuild /\ p_pc = "classify"
    /\ IF Truthy(state_data.issue_class)
       THEN /\ issue_command' = state_data.issue_class
            /\ UNCHANGED <<state_data, disk, steps>>
       ELSE \E res \in ClassifyResults :
               IF res = "error"
               THEN /\ issue_command' = "/feature"
                    /\ steps' = Append(steps, Step("classify_issue", FALSE))
                    /\ UNCHANGED <<state_data, disk>>
               ELSE /\ issue_command' = res
                    /\ state_data' = StateUpdate(state_data, "issue_class", res)
                    /\ disk' = StateSave(state_data')
                    /\ steps' = steps \o <<Step("classify_issue", TRUE),
                                           Step("state.save", TRUE)>>
    /\ p_pc' = "create_commit"
    /\ UNCHANGED <<script, exit_code, branch_name, plan_response, comments>>
    /\ UNCHANGED exceptPhase

\* adw_build.py 201-234, adw_build_iso.py 234-263: commit message and commit.
BuildCommit ==
    /\ IsBuild /\ p_pc = "create_commit"
    /\ \E message_ok \in BOOLEAN, success \in BOOLEAN :
          IF ~message_ok
          THEN Exit(1, <<Step("create_commit", FALSE)>>,
                    <<"sdlc_implementor: Error creating commit message">>)
          ELSE IF ~success
          THEN Exit(1, <<Step("create_commit", TRUE), Step("commit_changes", FALSE)>>,
                    <<"sdlc_implementor: Error committing implementation">>)
          ELSE /\ steps' = steps \o <<Step("create_commit", TRUE), Step("commit_changes", TRUE)>>
               /\ comments' = Append(comments, "sdlc_implementor: Implementation committed")
               /\ p_pc' = "finalize"
               /\ UNCHANGED <<script, state_data, disk, exit_code, issue_command,
                              branch_name, plan_response>>
    /\ UNCHANGED exceptPhase

\* adw_build.py 236-249, adw_build_iso.py 265-284: push and PR, the final
\* save and comments; main returns, exit code 0.
BuildFinalize ==
    /\ IsBuild /\ p_pc = "finalize"
    /\ disk' = StateSave(state_data)
    /\ steps' = steps \o <<Step("finalize_git_operations", TRUE), Step("state.save", TRUE)>>
    /\ comments' = comments \o
          (IF script = "build_iso"
           THEN <<"ops: Isolated implementation phase completed", "ops: Final build state">>
           ELSE <<"ops: Implementation phase completed">>)
    /\ p_pc' = "exited"
    /\ exit_code' = 0
    /\ UNCHANGED <<script, state_data, issue_command, branch_name, plan_response>>
    /\ UNCHANGED exceptPhase

BuildNext ==
    \/ BuildLoadState
    \/ BuildCheckEnvironment
    \/ BuildRequireFields
    \/ BuildCheckout
    \/ BuildImplement
    \/ BuildClassify
    \/ BuildCommit
    \/ BuildFinalize

(***************************************************************************)
(* The Test phase: adw_test.py, main.  The two resolution loops run as the *)
(* loop actions above, entered and left by the actions of main.            *)
(***************************************************************************)
TestInitialData ==
    [issue_class : {"None", "/bug"}, branch_name : {"None", "feat-issue-1-adw-a"},
     plan_file : {"None", "specs/plan.md"}]

\* What ensure_tests_exist_and_complete reports back to main: whether test
\* files were created or augmented, and whether any of them is fresh enough
\* to be committed.
EnsuranceReports == [touched : BOOLEAN, commit_files : BOOLEAN]

TotalFailures_unit_only(failed, e2e_failed) == failed

\* total_failures = failed_count + e2e_failed_count (line 1754)
TotalFailures(failed, e2e_failed) == failed + e2e_failed

TestInit ==
    /\ p_pc = "check_env"
    /\ script = "test"
    /\ state_data \in TestInitialData
    /\ disk = StateSave(state_data)
    /\ exit_code = -1
    /\ issue_command = state_data.issue_class
    /\ branch_name = "None"
    /\ plan_response = [success |-> FALSE, output |-> ""]
    /\ steps = <<>>
    /\ comments = <<>>
    /\ skip_e2e \in BOOLEAN
    /\ main_results = <<>>
    /\ main_passed_count = 0
    /\ main_failed_count = 0
    /\ main_test_response = "None"
    /\ e2e_results = <<>>
    /\ e2e_passed_count = 0
    /\ e2e_failed_count = 0

\* The loop locals do not exist yet; the E2E test files are on disk.
TestLoopInit ==
    /\ t_pc = "idle"
    /\ t_kind = "unit"
    /\ max_attempts = 0
    /\ t_attempt = 0
    /\ results = <<>>
    /\ passed_count = 0
    /\ failed_count = 0
    /\ test_response = "None"
    /\ failed_tests = <<>>
    /\ idx = 0
    /\ resolved_count = 0
    /\ unresolved_count = 0
    /\ e2e_files \in 0 .. MaxE2EFiles
    /\ runs = 0
    /\ last_run = "none"
    /\ round_outcomes = <<>>

IsTest == script = "test"

\* sys.exit(code) in adw_test.py
TestExit(code, new_steps, new_comments) ==
    /\ Exit(code, new_steps, new_comments)
    /\ UNCHANGED <<loopVars, testVars>>

\* Lines 1486-1496: check_env_vars, get_repo_url.
TestPreconditions ==
    /\ IsTest /\ p_pc = "check_env"
    /\ \E env_ok \in BOOLEAN, repo_ok \in BOOLEAN :
          IF ~env_ok \/ ~repo_ok
          THEN TestExit(1, <<>>, <<>>)
          ELSE /\ p_pc' = "branch"
               /\ UNCHANGED <<script, state_data, disk, exit_code, issue_command,
                              branch_name, plan_response, steps, comments>>
               /\ UNCHANGED <<loopVars, testVars>>
    /\ UNCHANGED exceptTest

\* Lines 1505-1561: check out the branch of the state, or create a test branch.
TestBranch ==
    /\ IsTest /\ p_pc = "branch"
    /\ \E ok \in BOOLEAN :
          IF Truthy(state_data.branch_name)
          THEN IF ~ok
               THEN TestExit(1, <<Step("git_checkout", FALSE)>>,
                             <<"ops: Failed to checkout branch">>)
               ELSE /\ branch_name' = state_data.branch_name
                    /\ steps' = Append(steps, Step("git_checkout", TRUE))
                    /\ comments' = Append(comments, "ops: Starting test suite")
                    /\ p_pc' = "ensurance"
                    /\ UNCHANGED <<script, state_data, disk, exit_code, issue_command,
                                   plan_response>>
                    /\ UNCHANGED <<loopVars, testVars>>
          ELSE IF ~ok
               THEN TestExit(1, <<Step("create_branch", FALSE)>>,
                             <<"ops: Error creating branch">>)
               ELSE /\ branch_name' = "test-issue-1-adw-a"
                    /\ state_data' = StateUpdate(state_data, "branch_name", branch_name')
                    /\ disk' = StateSave(state_data')
                    /\ steps' = steps \o <<Step("create_branch", TRUE), Step("state.save", TRUE)>>
                    /\ comments' = comments \o <<"ops: Created test branch",
                                                 "ops: Starting test suite">>
                    /\ p_pc' = "ensurance"
                    /\ UNCHANGED <<script, exit_code, issue_command, plan_response>>
                    /\ UNCHANGED <<loopVars, testVars>>
    /\ UNCHANGED exceptTest

\* Lines 1563-1627: the test ensurance phase when the plan file exists, then
\* the call of run_tests_with_resolution with its default max_attempts.
TestEnsuranceAndStartUnit ==
    /\ IsTest /\ p_pc = "ensurance"
    /\ LET spec_file == state_data.plan_file
       IN  IF Truthy(spec_file) /\ PathExists(spec_file)
           THEN \E report \in EnsuranceReports, committed \in BOOLEAN :
                   /\ steps' = steps \o <<Step("ensure_tests_exist_and_complete", TRUE)>> \o
                         (IF report.touched /\ report.commit_files
                          THEN <<Step("commit_changes", committed)>> ELSE <<>>)
                   /\ comments' = comments \o
                         (IF report.touched THEN <<"test ensurance report">> ELSE <<>>) \o
                         <<"test_runner: Running application tests">>
           ELSE /\ steps' = steps
                /\ comments' = Append(comments, "test_runner: Running application tests")
    /\ EnterLoop("unit", MAX_TEST_RETRY_ATTEMPTS)
    /\ p_pc' = "unit_tests"
    /\ UNCHANGED <<script, state_data, disk, exit_code, issue_command, branch_name,
                   plan_response>>
    /\ UNCHANGED testVars
    /\ UNCHANGED exceptTest

\* Lines 1625-1678: run_tests_with_resolution has returned; post the final
\* results, then skip the E2E tests or call run_e2e_tests_with_resolution.
TestUnitDone ==
    /\ IsTest /\ p_pc = "unit_tests"
    /\ t_pc = "done"
    /\ main_results' = results
    /\ main_passed_count' = passed_count
    /\ main_failed_count' = failed_count
    /\ main_test_response' = test_response
    /\ IF failed_count > 0
       THEN /\ comments' = comments \o <<"test_runner: Final test results",
                                         "ops: Skipping E2E tests due to unit test failures">>
            /\ p_pc' = "commit"
            /\ UNCHANGED loopVars
       ELSE IF skip_e2e
       THEN /\ comments' = comments \o <<"test_runner: Final test results",
                                         "ops: Skipping E2E tests as requested">>
            /\ p_pc' = "commit"
            /\ UNCHANGED loopVars
       ELSE /\ comments' = comments \o <<"test_runner: Final test results",
                                         "e2e_test_runner: Starting E2E tests">>
            /\ p_pc' = "e2e_tests"
            /\ EnterLoop("e2e", MAX_E2E_TEST_RETRY_ATTEMPTS)
    /\ UNCHANGED <<e2e_results, e2e_passed_count, e2e_failed_count, skip_e2e>>
    /\ UNCHANGED <<script, state_data, disk, exit_code, issue_command, branch_name,
                   plan_response, steps>>
    /\ UNCHANGED exceptTest

\* Lines 1676-1696: run_e2e_tests_with_resolution has returned.
TestE2EDone ==
    /\ IsTest /\ p_pc = "e2e_tests"
    /\ t_pc = "done"
    /\ e2e_results' = results
    /\ e2e_passed_count' = passed_count
    /\ e2e_failed_count' = failed_count
    /\ comments' = IF results # <<>>
                   THEN Append(comments, "e2e_test_runner: Final E2E test results")
                   ELSE comments
    /\ p_pc' = "commit"
    /\ UNCHANGED <<skip_e2e, main_results, main_passed_count, main_failed_count,
                   main_test_response>>
    /\ UNCHANGED <<script, state_data, disk, exit_code, issue_command, branch_name,
                   plan_response, steps>>
    /\ UNCHANGED loopVars
    /\ UNCHANGED exceptTest

\* Lines 1698-1737: commit the test results whatever the outcome; the
\* classification is derived when the state has none (default /chore); an
\* error of the commit is reported and main goes on.
TestCommit ==
    /\ IsTest /\ p_pc = "commit"
    /\ \E res \in ClassifyResults, commit_ok \in BOOLEAN :
          LET classified == IF res = "error" THEN "/chore" ELSE res
              commit_step == <<Step("create_commit", commit_ok)>>
              commit_note == IF commit_ok THEN <<>>
                             ELSE <<"test_runner: Error committing test results">>
          IN  /\ IF Truthy(issue_command)
                 THEN /\ UNCHANGED <<issue_command, state_data, disk>>
                      /\ steps' = steps \o commit_step
                 ELSE /\ issue_command' = classified
                      /\ state_data' = StateUpdate(state_data, "issue_class", classified)
                      /\ disk' = StateSave(state_data')
                      /\ steps' = steps \o <<Step("classify_issue", res # "error"),
                                             Step("state.save", TRUE)>> \o commit_step
              /\ comments' = comments \o <<"test_runner: Committing test results">> \o
                                commit_note
    /\ p_pc' = "finalize"
    /\ UNCHANGED <<script, exit_code, branch_name, plan_response>>
    /\ UNCHANGED <<loopVars, testVars>>
    /\ UNCHANGED exceptTest

\* Lines 1739-1779: the summary comment, push and PR, the final save, and
\* the exit code.
TestFinalize ==
    /\ IsTest /\ p_pc = "finalize"
    /\ disk' = StateSave(state_data)
    /\ steps' = steps \o <<Step("finalize_git_operations", TRUE), Step("state.save", TRUE)>>
    /\ LET total_failures == TotalFailures(main_failed_count, e2e_failed_count)
       IN  IF total_failures > 0
           THEN /\ comments' = comments \o <<"test_summary: Test Run Summary",
                                             "ops: Test suite completed with failures">>
                /\ exit_code' = 1
           ELSE /\ comments' = comments \o <<"test_summary: Test Run Summary",
                                             "ops: All tests passed successfully">>
                /\ exit_code' = 0
    /\ p_pc' = "exited"
    /\ UNCHANGED <<script, state_data, issue_command, branch_name, plan_response>>
    /\ UNCHANGED <<loopVars, testVars>>
    /\ UNCHANGED exceptTest

TestNext ==
    \/ TestPreconditions
    \/ TestBranch
    \/ TestEnsuranceAndStartUnit
    \/ TestUnitDone
    \/ TestE2EDone
    \/ TestCommit
    \/ TestFinalize

(***************************************************************************)
(* The isolated Test phase: adw_test_iso.py, main, with its two loops.     *)
(***************************************************************************)
IsTestIso == script = "test_iso"

\* total_failures = failed_count + (e2e_failed if not skip_e2e and
\* e2e_results else 0) (adw_test_iso.py 1526)
TotalFailuresIso(failed, e2e_failed, skip, e2e_rs) ==
    failed + (IF ~skip /\ e2e_rs # <<>> THEN e2e_failed ELSE 0)

\* `if not skip_e2e:` (adw_test_iso.py 1505): the unit failed_count is not
\* consulted.
StartE2EIso(skip, failed) == ~skip

TestIsoInit ==
    /\ p_pc = "load_state"
    /\ script = "test_iso"
    /\ disk \in BuildDisks
    /\ state_data = IF disk.exists THEN disk.data ELSE NoData
    /\ exit_code = -1
    /\ issue_command = "None"
    /\ branch_name = "None"
    /\ plan_response = [success |-> FALSE, output |-> ""]
    /\ steps = <<>>
    /\ comments = <<>>
    /\ skip_e2e \in BOOLEAN
    /\ main_results = <<>>
    /\ main_passed_count = 0
    /\ main_failed_count = 0
    /\ main_test_response = "None"
    /\ e2e_results = <<>>
    /\ e2e_passed_count = 0
    /\ e2e_failed_count = 0

\* adw_test_iso.py 1350-1370: load the state or give up.
TestIsoLoadState ==
    /\ IsTestIso /\ p_pc = "load_state"
    /\ IF disk.exists
       THEN /\ p_pc' = "check_env"
            /\ comments' = Append(comments, "ops: Found existing state")
            /\ UNCHANGED <<script, state_data, disk, exit_code, issue_command,
                           branch_name, plan_response, steps>>
            /\ UNCHANGED <<loopVars, testVars>>
       ELSE TestExit(1, <<>>, <<>>)
    /\ UNCHANGED exceptTest

\* adw_test_iso.py 1379-1409: check_env_vars, validate_worktree, first comment.
TestIsoCheckEnvironment ==
    /\ IsTestIso /\ p_pc = "check_env"
    /\ \E env_ok \in BOOLEAN, valid \in BOOLEAN :
          IF ~env_ok
          THEN TestExit(1, <<>>, <<>>)
          ELSE IF ~valid
          THEN TestExit(1, <<>>, <<"ops: Worktree validation failed">>)
          ELSE /\ p_pc' = "ensurance"
               /\ comments' = Append(comments, "ops: Starting isolated testing phase")
               /\ UNCHANGED <<script, state_data, disk, exit_code, issue_command,
                              branch_name, plan_response, steps>>
               /\ UNCHANGED <<loopVars, testVars>>
    /\ UNCHANGED exceptTest

\* adw_test_iso.py 1414-1481: the test ensurance phase when the plan file
\* exists, then the call of run_tests_with_resolution.
TestIsoEnsuranceAndStartUnit ==
    /\ IsTestIso /\ p_pc = "ensurance"
    /\ LET spec_file == state_data.plan_file
       IN  IF Truthy(spec_file) /\ PathExists(spec_file)
           THEN \E report \in EnsuranceReports, committed \in BOOLEAN :
                   /\ steps' = steps \o <<Step("ensure_tests_exist_and_complete", TRUE)>> \o
                         (IF report.touched /\ report.commit_files
                          THEN <<Step("commit_changes", committed)>> ELSE <<>>)
                   /\ comments' = comments \o
                         (IF report.touched THEN <<"test ensurance report">> ELSE <<>>) \o
                         <<"test_runner: Running unit tests in isolated environment">>
           ELSE /\ steps' = steps
                /\ comments' = Append(comments,
                                  "test_runner: Running unit tests in isolated environment")
    /\ EnterLoop("unit", MAX_TEST_RETRY_ATTEMPTS)
    /\ p_pc' = "unit_tests"
    /\ UNCHANGED <<script, state_data, disk, exit_code, issue_command, branch_name,
                   plan_response>>
    /\ UNCHANGED testVars
    /\ UNCHANGED exceptTest

\* adw_test_iso.py 404-438: the Test Doctor analysis that precedes the
\* resolution round; when it applied a fix the loop continues with a re-run
\* (an exception or no fix falls through to the resolution round).
TestDoctorRerun ==
    /\ IsTestIso
    /\ t_pc = "resolve" /\ t_kind = "unit"
    /\ idx = 0
    /\ t_pc' = "run"
    /\ UNCHANGED <<t_kind, max_attempts, t_attempt, results, passed_count,
                   failed_count, test_response, failed_tests, idx, resolved_count,
                   unresolved_count, e2e_files, runs, last_run, round_outcomes>>
    /\ UNCHANGED exceptLoop

\* adw_test_iso.py 590-643: one attempt of run_e2e_tests_with_resolution up
\* to the resolution round; here one agent call runs all E2E tests.
RunE2ETestsIso ==
    /\ IsTestIso
    /\ t_pc = "run" /\ t_kind = "e2e"
    /\ t_attempt < max_attempts
    /\ t_attempt' = NextAttempt(t_attempt)
    /\ runs' = runs + 1
    /\ \E run \in UnitRuns :
          IF ~run.success
          THEN /\ last_run' = "tool_error"
               /\ t_pc' = "done"
               /\ UNCHANGED <<results, passed_count, failed_count, failed_tests, idx,
                              resolved_count, unresolved_count, round_outcomes>>
          ELSE LET parsed == parse_test_results(run)
               IN  /\ results' = parsed.results
                   /\ passed_count' = parsed.passed_count
                   /\ failed_count' = parsed.failed_count
                   /\ IF parsed.results = <<>>
                      THEN /\ last_run' = "no_results"
                           /\ t_pc' = "done"
                           /\ UNCHANGED <<failed_tests, idx, resolved_count,
                                          unresolved_count, round_outcomes>>
                      ELSE /\ last_run' = IF parsed.failed_count = 0
                                          THEN "no_failures" ELSE "failures"
                           /\ AfterCount(parsed.failed_count, parsed.results, t_attempt')
    /\ UNCHANGED <<t_kind, max_attempts, test_response, e2e_files>>
    /\ UNCHANGED exceptLoop

\* adw_test_iso.py 1479-1515: run_tests_with_resolution has returned; post
\* the results, then call run_e2e_tests_with_resolution unless --skip-e2e.
TestIsoUnitDone ==
    /\ IsTestIso /\ p_pc = "unit_tests"
    /\ t_pc = "done"
    /\ main_results' = results
    /\ main_passed_count' = passed_count
    /\ main_failed_count' = failed_count
    /\ main_test_response' = test_response
    /\ LET posted == IF results # <<>> THEN "test_runner: Test results"
                     ELSE "test_runner: No test results found in output"
       IN  IF StartE2EIso(skip_e2e, failed_count)
           THEN /\ comments' = comments \o
                      <<posted, "e2e_test_runner: Running E2E tests in isolated environment">>
                /\ p_pc' = "e2e_tests"
                /\ EnterLoop("e2e", MAX_E2E_TEST_RETRY_ATTEMPTS)
           ELSE /\ comments' = Append(comments, posted)
                /\ p_pc' = "commit"
                /\ UNCHANGED loopVars
    /\ UNCHANGED <<e2e_results, e2e_passed_count, e2e_failed_count, skip_e2e>>
    /\ UNCHANGED <<script, state_data, disk, exit_code, issue_command, branch_name,
                   plan_response, steps>>
    /\ UNCHANGED exceptTest

\* adw_test_iso.py 1513-1517: run_e2e_tests_with_resolution has returned.
TestIsoE2EDone ==
    /\ IsTestIso /\ p_pc = "e2e_tests"
    /\ t_pc = "done"
    /\ e2e_results' = results
    /\ e2e_passed_count' = passed_count
    /\ e2e_failed_count' = failed_count
    /\ p_pc' = "commit"
    /\ UNCHANGED <<skip_e2e, main_results, main_passed_count, main_failed_count,
                   main_test_response>>
    /\ UNCHANGED <<script, state_data, disk, exit_code, issue_command, branch_name,
                   plan_response, steps, comments>>
    /\ UNCHANGED loopVars
    /\ UNCHANGED exceptTest

\* adw_test_iso.py 1520-1585: the summary comment, get_repo_url, the
\* classification (taken from the state, or derived and saved, or /feature
\* when it fails), the commit message and the commit.
TestIsoCommit ==
    /\ IsTestIso /\ p_pc = "commit"
    /\ \E repo_ok \in BOOLEAN, res \in ClassifyResults, msg_ok \in BOOLEAN,
          commit_ok \in BOOLEAN :
          LET summary == <<"test_summary: Comprehensive test results">>
              from_state == state_data.issue_class
              classify_steps == IF Truthy(from_state) THEN <<>>
                                ELSE IF res = "error"
                                THEN <<Step("classify_issue", FALSE)>>
                                ELSE <<Step("classify_issue", TRUE), Step("state.save", TRUE)>>
              command == IF Truthy(from_state) THEN from_state
                         ELSE IF res = "error" THEN "/feature" ELSE res
              saved == IF Truthy(from_state) \/ res = "error" THEN state_data
                       ELSE StateUpdate(state_data, "issue_class", res)
          IN  IF ~repo_ok
              THEN TestExit(1, <<>>, summary)
              ELSE /\ issue_command' = command
                   /\ state_data' = saved
                   /\ disk' = IF saved = state_data THEN disk ELSE StateSave(saved)
                   /\ UNCHANGED <<script, branch_name, plan_response>>
                   /\ UNCHANGED <<loopVars, testVars>>
                   /\ IF ~msg_ok
                      THEN /\ steps' = steps \o classify_steps \o
                                          <<Step("create_commit", FALSE)>>
                           /\ comments' = comments \o summary \o
                                 <<"test_runner: Error creating commit message">>
                           /\ p_pc' = "exited"
                           /\ exit_code' = 1
                      ELSE IF ~commit_ok
                      THEN /\ steps' = steps \o classify_steps \o
                                 <<Step("create_commit", TRUE), Step("commit_changes", FALSE)>>
                           /\ comments' = comments \o summary \o
                                 <<"test_runner: Error committing test results">>
                           /\ p_pc' = "exited"
                           /\ exit_code' = 1
                      ELSE /\ steps' = steps \o classify_steps \o
                                 <<Step("create_commit", TRUE), Step("commit_changes", TRUE)>>
                           /\ comments' = comments \o summary \o
                                 <<"test_runner: Test results committed">>
                           /\ p_pc' = "finalize"
                           /\ UNCHANGED exit_code
    /\ UNCHANGED exceptTest

\* adw_test_iso.py 1587-1621: push and PR, the final save and comments, and
\* the exit code.
TestIsoFinalize ==
    /\ IsTestIso /\ p_pc = "finalize"
    /\ disk' = StateSave(state_data)
    /\ steps' = steps \o <<Step("finalize_git_operations", TRUE), Step("state.save", TRUE)>>
    /\ LET total_failures == TotalFailuresIso(main_failed_count, e2e_failed_count,
                                              skip_e2e, e2e_results)
           before == <<"ops: Isolated testing phase completed", "ops: Final test state">>
       IN  IF total_failures > 0
           THEN /\ comments' = comments \o before \o
                                  <<"ops: Test workflow completed with failures">>
                /\ exit_code' = 1
           ELSE /\ comments' = comments \o before \o
                                  <<"ops: All tests passed successfully">>
                /\ exit_code' = 0
    /\ p_pc' = "exited"
    /\ UNCHANGED <<script, state_data, issue_command, branch_name, plan_response>>
    /\ UNCHANGED <<loopVars, testVars>>
    /\ UNCHANGED exceptTest

TestIsoNext ==
    \/ TestIsoLoadState
    \/ TestIsoCheckEnvironment
    \/ TestIsoEnsuranceAndStartUnit
    \/ TestIsoUnitDone
    \/ TestIsoE2EDone
    \/ TestIsoCommit
    \/ TestIsoFinalize

StateIdle ==
    /\ all_adws = <<>>
    /\ appended = <<>>

(***************************************************************************)
(* The sub-workflow list of the run state (adw_modules/state.py is not     *)
(* part of the sources; append_adw_id follows the specification and the    *)
(* integration test).                                                      *)
(***************************************************************************)
MaxAppends == 4

\* The workflow scripts that record themselves (adw_build_iso.py 91,
\* adw_test_iso.py 1370) and the planning script that precedes them.
AdwNames == {"adw_plan_iso", "adw_build_iso", "adw_test_iso"}

Range(s) == {s[i] : i \in 1 .. Len(s)}

append_adw_id_unchecked(list, name) == Append(list, name)

\* state.append_adw_id(name): add the name to all_adws if not already present.
append_adw_id(list, name) == IF name \in Range(list) THEN list ELSE Append(list, name)

\* A fresh state, or the state a planning run left behind.
StateInit ==
    /\ all_adws \in {<<>>, <<"adw_plan_iso">>}
    /\ appended = all_adws

\* state.append_adw_id("adw_build_iso") and the like.
AppendAdwId ==
    /\ Len(appended) < MaxAppends
    /\ \E name \in AdwNames :
          /\ all_adws' = append_adw_id(all_adws, name)
          /\ appended' = Append(appended, name)
    /\ UNCHANGED exceptState

CatIdle ==
    /\ requirements = <<>>
    /\ cat_result = [missing |-> <<>>, obviously_broken |-> <<>>, needs_validation |-> <<>>]

(***************************************************************************)
(* categorize_tests_fast (adw_test.py 862-911, adw_test_iso.py 728-781).   *)
(* A file's content is a sequence of pieces of text, enough to tell the    *)
(* three checks apart.                                                     *)
(***************************************************************************)
MaxReqs == 2
MaxTokens == 3

Tokens == {"def test_a", "def test_", "assert", " "}

\* len(token)
TokenLen(t) == CASE t = "def test_a" -> 10 [] t = "def test_" -> 9
                 [] t = "assert" -> 6 [] OTHER -> 1

Contents == SeqsUpTo(Tokens, MaxTokens)

\* content.strip(): leading and trailing whitespace removed
RECURSIVE Strip(_)
Strip(c) ==
    IF c = <<>> THEN c
    ELSE IF Head(c) = " " THEN Strip(Tail(c))
    ELSE IF Last(c) = " " THEN Strip(SubSeq(c, 1, Len(c) - 1))
    ELSE c

\* len(content)
RECURSIVE ContentLen(_)
ContentLen(c) == IF c = <<>> THEN 0 ELSE TokenLen(Head(c)) + ContentLen(Tail(c))

\* re.search(r"def test_\w+", content): the prefix must be followed by a
\* word character, in the same piece or at the start of the next one.
HasTestDef(c) ==
    \E i \in 1 .. Len(c) :
        \/ c[i] = "def test_a"
        \/ c[i] = "def test_" /\ i < Len(c) /\ c[i + 1] # " "

\* "assert" in content
HasAssert(c) == \E i \in 1 .. Len(c) : c[i] = "assert"

is_broken_without_assert_check(c) == ContentLen(Strip(c)) < 10 \/ ~HasTestDef(c)

\* is_broken (lines 885-889)
is_broken(c) == ContentLen(Strip(c)) < 10 \/ ~HasTestDef(c) \/ ~HasAssert(c)

\* What a requirement's test_file_path names on disk: nothing, a file that
\* cannot be read, or a file with some content.
AbsentFile == [exists |-> FALSE, readable |-> FALSE, content |-> <<>>]
FileStates ==
    {AbsentFile, [exists |-> TRUE, readable |-> FALSE, content |-> <<>>]} \cup
    {[exists |-> TRUE, readable |-> TRUE, content |-> c] : c \in Contents}

\* A requirement: req.get("test_file_path") is None, empty, or a path.
Requirements ==
    {[path |-> p, file |-> AbsentFile] : p \in {"None", ""}} \cup
    {[path |-> "tests/test_a.py", file |-> f] : f \in FileStates}

\* The category one iteration of the for loop appends the requirement to.
Categorize(req) ==
    IF ~Truthy(req.path) THEN "skipped"
    ELSE IF ~req.file.exists THEN "missing"
    ELSE IF ~req.file.readable THEN "missing"
    ELSE IF is_broken(req.file.content) THEN "obviously_broken"
    ELSE "needs_validation"

CatInit ==
    /\ requirements = <<>>
    /\ cat_result = [missing |-> <<>>, obviously_broken |-> <<>>, needs_validation |-> <<>>]

\* One iteration of `for req in requirements` (lines 871-909).
CategorizeOne ==
    /\ Len(requirements) < MaxReqs
    /\ \E req \in Requirements :
          LET category == Categorize(req)
              index == Len(requirements) + 1
          IN  /\ requirements' = Append(requirements, req)
              /\ cat_result' = IF category = "skipped" THEN cat_result
                               ELSE [cat_result EXCEPT ![category] = Append(@, index)]
    /\ UNCHANGED exceptCat

EnsuranceIdle ==
    /\ ens_pc = "idle"
    /\ actions = [create |-> <<>>, augment |-> <<>>, replace |-> <<>>]
    /\ tasks = <<>>
    /\ pending = {}
    /\ execution_results = [created |-> <<>>, augmented |-> <<>>, failed |-> <<>>]
    /\ val_idx = 0
    /\ validated = [created_and_passing |-> <<>>, augmented_and_passing |-> <<>>, created_but_failing |-> <<>>]
    /\ ens_report = [created |-> 0, augmented |-> 0, failed |-> 0, all_passing |-> TRUE]
    /\ exec_log = <<>>
    /\ val_log = <<>>

(***************************************************************************)
(* The Test-Ensurance pipeline from step 5 on: adw_test.py,                *)
(* execute_test_actions_parallel, validate_and_fix_created_tests and the   *)
(* report of ensure_tests_exist_and_complete.  Each requirement names its  *)
(* own file; a file is named by its number.                                *)
(***************************************************************************)
MaxTasks == 2

ActionKinds == {"create", "augment", "replace"}

\* The files of one kind among the first n files, in order.
RECURSIVE FilesOf(_, _, _)
FilesOf(kinds, kind, i) ==
    IF i > Len(kinds) THEN <<>>
    ELSE (IF kinds[i] = kind THEN <<i>> ELSE <<>>) \o FilesOf(kinds, kind, i + 1)

\* for req in actions[...]: tasks.append((action_type, req)) (lines 1135-1140)
TaskList(acts) ==
    [i \in 1 .. Len(acts.create) |-> [action_type |-> "create", file |-> acts.create[i]]] \o
    [i \in 1 .. Len(acts.augment) |-> [action_type |-> "augment", file |-> acts.augment[i]]] \o
    [i \in 1 .. Len(acts.replace) |-> [action_type |-> "create", file |-> acts.replace[i]]]

\* How one future ends: create_or_augment_test returns (True, file) or
\* (False, file), or future.result() raises.
TaskOutcomes == {"success", "failure", "exception"}

\* How the validation of one file ends: pytest passes, attempt_test_fix
\* returns True, or it returns False.
ValidationOutcomes == {"passing", "fixed", "failing"}

AllPassing_ignoring_execution(vd, ex) == Len(vd.created_but_failing) = 0

\* all_passing of the report (lines 1441-1442)
AllPassing(vd, ex) == Len(vd.created_but_failing) = 0 /\ Len(ex.failed) = 0

\* failed of the report (line 1440)
FailedTally(vd, ex) == Len(vd.created_but_failing) + Len(ex.failed)

\* all_tests = execution_results["created"] + execution_results["augmented"]
AllTests(ex) == ex.created \o ex.augmented

EnsuranceInit ==
    /\ ens_pc = "execute"
    /\ \E kinds \in SeqsUpTo(ActionKinds, MaxTasks) :
          actions = [create |-> FilesOf(kinds, "create", 1),
                     augment |-> FilesOf(kinds, "augment", 1),
                     replace |-> FilesOf(kinds, "replace", 1)]
    /\ tasks = TaskList(actions)
    /\ pending = 1 .. Len(tasks)
    /\ execution_results = [created |-> <<>>, augmented |-> <<>>, failed |-> <<>>]
    /\ val_idx = 0
    /\ validated = [created_and_passing |-> <<>>, augmented_and_passing |-> <<>>,
                    created_but_failing |-> <<>>]
    /\ ens_report = [created |-> 0, augmented |-> 0, failed |-> 0, all_passing |-> TRUE]
    /\ exec_log = <<>>
    /\ val_log = <<>>

\* Lines 1156-1179: one iteration of `for future in as_completed(futures)`;
\* the futures complete in any order.
CollectFuture ==
    /\ ens_pc = "execute"
    /\ \E t \in pending, outcome \in TaskOutcomes :
          LET task == tasks[t]
              result_key == IF outcome # "success" THEN "failed"
                            ELSE IF task.action_type = "create" THEN "created"
                            ELSE "augmented"
          IN  /\ execution_results' =
                    [execution_results EXCEPT ![result_key] = Append(@, task.file)]
              /\ exec_log' = Append(exec_log, [file |-> task.file, outcome |-> outcome])
              /\ pending' = pending \ {t}
    /\ UNCHANGED <<ens_pc, actions, tasks, val_idx, validated, ens_report, val_log>>
    /\ UNCHANGED exceptEns

\* Line 1181 / lines 1419-1430: all futures are drained; step 6 follows.
ExecutionDone ==
    /\ ens_pc = "execute"
    /\ pending = {}
    /\ ens_pc' = "validate"
    /\ UNCHANGED <<actions, tasks, pending, execution_results, val_idx, validated, ens_report,
                   exec_log, val_log>>
    /\ UNCHANGED exceptEns

\* Lines 1201-1249: one iteration of `for test_file in all_tests`.
ValidateOne ==
    /\ ens_pc = "validate"
    /\ val_idx < Len(AllTests(execution_results))
    /\ \E outcome \in ValidationOutcomes :
          LET test_file == AllTests(execution_results)[val_idx + 1]
              action_type == IF test_file \in Range(execution_results.created)
                             THEN "created" ELSE "augmented"
              key == IF outcome = "failing" THEN "created_but_failing"
                     ELSE IF action_type = "created" THEN "created_and_passing"
                     ELSE "augmented_and_passing"
          IN  /\ validated' = [validated EXCEPT ![key] = Append(@, test_file)]
              /\ val_log' = Append(val_log, [file |-> test_file, outcome |-> outcome])
    /\ val_idx' = val_idx + 1
    /\ UNCHANGED <<ens_pc, actions, tasks, pending, execution_results, ens_report, exec_log>>
    /\ UNCHANGED exceptEns

\* Lines 1433-1452: build the report.
BuildReport ==
    /\ ens_pc = "validate"
    /\ val_idx = Len(AllTests(execution_results))
    /\ ens_report' = [created |-> Len(validated.created_and_passing),
                  augmented |-> Len(validated.augmented_and_passing),
                  failed |-> FailedTally(validated, execution_results),
                  all_passing |-> AllPassing(validated, execution_results)]
    /\ ens_pc' = "done"
    /\ UNCHANGED <<actions, tasks, pending, execution_results, val_idx, validated,
                   exec_log, val_log>>
    /\ UNCHANGED exceptEns

TrackerIdle ==
    /\ tracker_file = [exists |-> FALSE, data |-> EmptyDict]
    /\ clock = 0
    /\ recorded = <<>>

(***************************************************************************)
(* The pattern frequency tracker: test_doctor.py, update_pattern_tracker   *)
(* with load_tracker and save_tracker.  Times are integers; the clock      *)
(* never runs backwards.                                                   *)
(***************************************************************************)
MaxRecordings == 3
MaxMatches == 2

PatternIds == {"import-error", "fixture-missing"}

\* By how much the clock advances before each of the two datetime.now()
\* reads of one loop iteration.
Ticks == [first : {0, 1}, last : {0, 1}]

\* load_tracker() (lines 122-126)
load_tracker(file) == IF file.exists THEN file.data ELSE EmptyDict

\* save_tracker(tracker) (lines 129-132)
save_tracker(tracker) == [exists |-> TRUE, data |-> tracker]

RecordMatch_resets_entry(tracker, pattern_id, first_read, last_read) ==
    (pattern_id :> [count |-> 1, first_seen |-> first_read, last_seen |-> last_read,
                    status |-> "active"]) @@ tracker

\* Lines 21-32: the body of `for match in pattern_matches`.
RecordMatch(tracker, pattern_id, first_read, last_read) ==
    LET entry == IF pattern_id \notin DOMAIN tracker
                 THEN [count |-> 0, first_seen |-> first_read, last_seen |-> -1,
                       status |-> "active"]
                 ELSE tracker[pattern_id]
    IN  (pattern_id :> [entry EXCEPT !.count = @ + 1, !.last_seen = last_read]) @@ tracker

\* The for loop of update_pattern_tracker from match i on: the tracker, the
\* clock and the recordings it ends with.
RECURSIVE RecordAll(_, _, _, _, _, _)
RecordAll(tracker, now, log, matches, ticks, i) ==
    IF i > Len(matches) THEN [tracker |-> tracker, clock |-> now, log |-> log]
    ELSE LET first_read == now + ticks[i].first
             last_read == first_read + ticks[i].last
         IN  RecordAll(RecordMatch(tracker, matches[i], first_read, last_read), last_read,
                       Append(log, [pattern_id |-> matches[i], first_read |-> first_read,
                                    last_read |-> last_read]),
                       matches, ticks, i + 1)

TrackerInit ==
    /\ tracker_file = [exists |-> FALSE, data |-> EmptyDict]
    /\ clock = 0
    /\ recorded = <<>>

\* update_pattern_tracker(pattern_matches) (lines 16-35)
UpdatePatternTracker ==
    /\ \E matches \in SeqsUpTo(PatternIds, MaxMatches) :
          /\ Len(recorded) + Len(matches) <= MaxRecordings
          /\ \E ticks \in [1 .. Len(matches) -> Ticks] :
                LET after == RecordAll(load_tracker(tracker_file), clock, recorded,
                                       matches, ticks, 1)
                IN  /\ tracker_file' = save_tracker(after.tracker)
                    /\ clock' = after.clock
                    /\ recorded' = after.log
    /\ UNCHANGED exceptTracker

PaymentsIdle ==
    /\ users = <<>>
    /\ entitlements = <<>>
    /\ referrals = <<>>
    /\ delivered = <<>>
    /\ webhook_response = "none"
    /\ granted = 0

(***************************************************************************)
(* The Stripe webhook: payments.py, stripe_webhook, with                   *)
(* entitlement_service.grant_entitlement and referral_service              *)
(* create_referral / apply_referral_credit.  One delivery is handled at a  *)
(* time.                                                                   *)
(***************************************************************************)
MaxDeliveries == 3

\* The users table: two users, ids 1 and 2.
InitialUsers ==
    <<[email |-> "one@example.com", referral_credits |-> 0],
      [email |-> "two@example.com", referral_credits |-> 0]>>

UserIds == DOMAIN InitialUsers

\* A payment_intent.succeeded event: the payment intent id, the amount and
\* the metadata (0 stands for a key that is absent; referrer 3 is no user).
\* user_email is the buyer's own email, as create_checkout_session sets it.
Events ==
    [id : {"pi_1", "pi_2"}, amount : {999, 8000}, user_id : {0} \cup UserIds,
     price_id : {"price_c1"}, referrer_id : {0, 1, 3}]

\* metadata.get("user_email")
EventEmail(e) == users[e.user_id].email

\* credit_amount = int(amount * 0.25) (line 241), for a non-negative amount
CreditAmount(amount) == (amount * 25) \div 100

\* select(...).where(stripe_payment_intent_id == payment_intent_id)
WithPaymentIntent(table, payment_intent_id) ==
    SelectSeq(table, LAMBDA row : row.stripe_payment_intent_id = payment_intent_id)

grant_entitlement_unchecked(table, user_id, price_id, payment_intent_id) ==
    Append(table, [id |-> Len(table) + 1, user_id |-> user_id,
                   stripe_price_id |-> price_id,
                   stripe_payment_intent_id |-> payment_intent_id, status |-> "active"])

\* grant_entitlement (entitlement_service.py 8-46): the table afterwards;
\* the returned record is the one with the payment intent id.
grant_entitlement(table, user_id, price_id, payment_intent_id) ==
    IF WithPaymentIntent(table, payment_intent_id) # <<>> THEN table
    ELSE Append(table, [id |-> Len(table) + 1, user_id |-> user_id,
                        stripe_price_id |-> price_id,
                        stripe_payment_intent_id |-> payment_intent_id,
                        status |-> "active"])

\* create_referral raises ValueError("Users cannot refer themselves")
\* (referral_service.py 99-103)
SelfReferral(referrer_id, referee_email) ==
    referrer_id \in UserIds /\ users[referrer_id].email = referee_email

\* create_referral after the self-referral check (lines 105-124): the table
\* afterwards.
create_referral(table, referrer_id, referee_email, payment_intent_id) ==
    IF WithPaymentIntent(table, payment_intent_id) # <<>> THEN table
    ELSE Append(table, [id |-> Len(table) + 1, referrer_id |-> referrer_id,
                        referee_email |-> referee_email,
                        stripe_payment_intent_id |-> payment_intent_id,
                        status |-> "pending"])

AlreadyCredited_unchecked(referral) == FALSE

\* `if referral.status == "credited": return` (referral_service.py 166-167)
AlreadyCredited(referral) == referral.status = "credited"

\* apply_referral_credit (lines 143-181): the users and referrals tables
\* afterwards.
apply_referral_credit(us, table, referrer_id, amount, referral_id) ==
    IF referral_id \notin 1 .. Len(table) \/ AlreadyCredited(table[referral_id])
    THEN [users |-> us, referrals |-> table]
    ELSE [users |-> IF referrer_id \in DOMAIN us
                    THEN [us EXCEPT ![referrer_id].referral_credits = @ + amount]
                    ELSE us,
          referrals |-> [table EXCEPT ![referral_id].status = "credited"]]

PaymentsInit ==
    /\ users = InitialUsers
    /\ entitlements = <<>>
    /\ referrals = <<>>
    /\ delivered = <<>>
    /\ webhook_response = "none"
    /\ granted = 0

\* stripe_webhook for a payment_intent.succeeded event (lines 208-265).
Deliver(e) ==
    /\ Len(delivered) < MaxDeliveries
    /\ delivered' = Append(delivered, e)
    /\ IF e.user_id = 0
       THEN /\ webhook_response' = "error"
            /\ UNCHANGED <<users, entitlements, referrals, granted>>
       ELSE LET table == grant_entitlement(entitlements, e.user_id, e.price_id, e.id)
                referee_email == EventEmail(e)
            IN  /\ entitlements' = table
                /\ granted' = WithPaymentIntent(table, e.id)[1].id
                /\ webhook_response' = "success"
                /\ IF e.referrer_id = 0 \/ SelfReferral(e.referrer_id, referee_email)
                   THEN UNCHANGED <<users, referrals>>
                   ELSE LET created == create_referral(referrals, e.referrer_id,
                                                       referee_email, e.id)
                            referral == WithPaymentIntent(created, e.id)[1]
                            after == apply_referral_credit(users, created, e.referrer_id,
                                                           CreditAmount(e.amount),
                                                           referral.id)
                        IN  /\ users' = after.users
                            /\ referrals' = after.referrals
    /\ UNCHANGED exceptPay

\* Any event is delivered.
DeliverAny == \E e \in Events : Deliver(e)

\* The first delivery of an event, and deliveries of the same event again.
FirstDelivery == delivered = <<>> /\ \E e \in Events : Deliver(e)

Redelivery == delivered # <<>> /\ Deliver(delivered[1])

MagicLinkIdle ==
    /\ magic_links = <<>>
    /\ utc_now = 0
    /\ validations = <<>>
    /\ link_result = [user |-> 0, session |-> FALSE]

(***************************************************************************)
(* Magic links: magic_link.py, generate_magic_link and validate_magic_link.*)
(* Time is counted in minutes.                                             *)
(***************************************************************************)
MaxClock == 30
MaxLinks == 2
MaxValidations == 3

\* settings.MAGIC_LINK_EXPIRY_MINUTES (core/config.py 34)
MAGIC_LINK_EXPIRY_MINUTES == 15

\* The clock advances by this much between calls.
ClockStep == 10

Times == {t \in 0 .. MaxClock : t % ClockStep = 0}

Emails == {"one@example.com", "nobody@example.com"}

\* A token is the email signed with the time of signing (serializer.dumps);
\* signed is FALSE for a string the serializer did not sign.
MagicTokens == [email : Emails, issued : Times, signed : BOOLEAN]

\* serializer.dumps(email, salt="magic-link")
Dumps(email) == [email |-> email, issued |-> utc_now, signed |-> TRUE]

\* select(User).where(User.email == email): the id, 0 for None
UserByEmail(email) ==
    IF \E u \in UserIds : InitialUsers[u].email = email
    THEN CHOOSE u \in UserIds : InitialUsers[u].email = email
    ELSE 0

\* select(MagicLink).where(MagicLink.token == token)
LinksWithToken(token) == SelectSeq(magic_links, LAMBDA link : link.token = token)

\* serializer.loads(token, salt, max_age) returns (lines 50-54); otherwise it
\* raises BadSignature or SignatureExpired.
LoadsOk(token) ==
    token.signed /\ (utc_now - token.issued) * 60 <= MAGIC_LINK_EXPIRY_MINUTES * 60

\* datetime.now(UTC) > magic_link.expires_at (line 72)
LinkExpired(link) == utc_now > link.expires_at

LinkUsable_ignoring_used(link) == ~LinkExpired(link)

\* the link passes the used and expired checks (lines 67-74)
LinkUsable(link) == ~link.used /\ ~LinkExpired(link)

\* The index of the stored link with the token.
LinkIndex(token) == CHOOSE i \in 1 .. Len(magic_links) : magic_links[i].token = token

MagicLinkInit ==
    /\ magic_links = <<>>
    /\ utc_now = 0
    /\ validations = <<>>
    /\ link_result = [user |-> 0, session |-> FALSE]

\* generate_magic_link (lines 15-43).  An unknown email raises ValueError;
\* a token that is already stored violates the unique constraint on commit.
GenerateMagicLink ==
    /\ Len(magic_links) < MaxLinks
    /\ \E email \in Emails :
          LET token == Dumps(email)
              user == UserByEmail(email)
          IN  IF user = 0 \/ LinksWithToken(token) # <<>>
              THEN UNCHANGED magic_links
              ELSE magic_links' = Append(magic_links,
                        [user_id |-> user, token |-> token,
                         expires_at |-> utc_now + MAGIC_LINK_EXPIRY_MINUTES,
                         used |-> FALSE])
    /\ UNCHANGED <<utc_now, validations, link_result>>
    /\ UNCHANGED exceptLink

\* validate_magic_link (lines 46-103)
ValidateMagicLink ==
    /\ Len(validations) < MaxValidations
    /\ \E token \in MagicTokens :
          LET found == LoadsOk(token) /\ LinksWithToken(token) # <<>>
              ok == found /\ LinkUsable(magic_links[LinkIndex(token)])
              user == IF ok /\ magic_links[LinkIndex(token)].user_id \in UserIds
                      THEN magic_links[LinkIndex(token)].user_id ELSE 0
          IN  /\ magic_links' = IF ok
                                THEN [magic_links EXCEPT ![LinkIndex(token)].used = TRUE]
                                ELSE magic_links
              /\ link_result' = [user |-> user, session |-> user # 0]
              /\ validations' = Append(validations,
                                       [token |-> token, user |-> user, session |-> user # 0])
    /\ UNCHANGED utc_now
    /\ UNCHANGED exceptLink

\* Time passes between two calls.
ClockTick ==
    /\ utc_now + ClockStep <= MaxClock
    /\ utc_now' = utc_now + ClockStep
    /\ UNCHANGED <<magic_links, validations, link_result>>
    /\ UNCHANGED exceptLink

AccessIdle ==
    /\ access_check = [fn |-> "none", user_id |-> 0, target |-> "None", product |-> "None", result |-> "none"]

(***************************************************************************)
(* Entitlements and access: entitlement_service.py, grant_entitlement,     *)
(* revoke_entitlement, check_entitlement, check_product_access and         *)
(* check_course_access.                                                    *)
(***************************************************************************)
MaxGrants == 2

\* The stripe_prices table: price id -> product_id
StripePrices ==
    [p \in {"price_c1", "price_a1", "price_a2"} |->
        IF p = "price_c1" THEN "prod_cur" ELSE "prod_ala"]

\* The stripe_products table: product id -> category
StripeProducts ==
    [p \in {"prod_cur", "prod_ala"} |->
        IF p = "prod_cur" THEN "curriculum" ELSE "alacarte"]

\* Product ids a caller asks about; prod_none has no price.
ProductIds == DOMAIN StripeProducts \cup {"prod_none"}

\* Course rows: category and stripe_product_id ("None" for NULL).
Courses ==
    {[category |-> "free", stripe_product_id |-> "None"],
     [category |-> "unique", stripe_product_id |-> "None"],
     [category |-> "alacarte", stripe_product_id |-> "prod_ala"],
     [category |-> "curriculum", stripe_product_id |-> "prod_cur"],
     [category |-> "workshop", stripe_product_id |-> "prod_ala"]}

PaymentIntentIds == {"pi_1", "pi_2", "pi_3"}

\* result.scalar_one_or_none() followed by `is not None`; more than one row
\* raises MultipleResultsFound.
IsNotNone(rows) ==
    IF Len(rows) > 1 THEN "raises" ELSE IF Len(rows) = 1 THEN "true" ELSE "false"

ActiveForPrice_any_status(user_id, price_id) ==
    SelectSeq(entitlements, LAMBDA row :
        row.user_id = user_id /\ row.stripe_price_id = price_id)

\* the query of check_entitlement (lines 63-69)
ActiveForPrice(user_id, price_id) ==
    SelectSeq(entitlements, LAMBDA row :
        row.user_id = user_id /\ row.stripe_price_id = price_id /\ row.status = "active")

\* check_entitlement (lines 49-71)
check_entitlement(user_id, price_id) == IsNotNone(ActiveForPrice(user_id, price_id))

\* select(StripePrice.id).where(StripePrice.product_id == product_id)
PricesOf(product_id) == {p \in DOMAIN StripePrices : StripePrices[p] = product_id}

\* the second query of check_product_access (lines 135-141)
ActiveForProduct(user_id, product_id) ==
    SelectSeq(entitlements, LAMBDA row :
        /\ row.user_id = user_id
        /\ row.stripe_price_id \in PricesOf(product_id)
        /\ row.status = "active")

\* check_product_access (lines 112-144)
check_product_access(user_id, product_id) ==
    IF PricesOf(product_id) = {} THEN "false"
    ELSE IsNotNone(ActiveForProduct(user_id, product_id))

\* the joined query of check_course_access (lines 180-190)
ActiveForCategory(user_id, category) ==
    SelectSeq(entitlements, LAMBDA row :
        /\ row.stripe_price_id \in DOMAIN StripePrices
        /\ StripePrices[row.stripe_price_id] \in DOMAIN StripeProducts
        /\ row.user_id = user_id
        /\ row.status = "active"
        /\ StripeProducts[StripePrices[row.stripe_price_id]] = category)

\* check_course_access (lines 147-194)
check_course_access(user_id, course) ==
    IF course.category = "free" THEN "true"
    ELSE IF course.category \in {"unique", "alacarte"}
         THEN IF course.stripe_product_id = "None" THEN "false"
              ELSE check_product_access(user_id, course.stripe_product_id)
    ELSE IF course.category = "curriculum"
         THEN IsNotNone(ActiveForCategory(user_id, "curriculum"))
    ELSE "false"

AccessInit ==
    /\ PaymentsInit
    /\ access_check = [fn |-> "none", user_id |-> 0, target |-> "None", product |-> "None", result |-> "none"]

\* a call of grant_entitlement (lines 8-46)
GrantEntitlement ==
    /\ Len(entitlements) < MaxGrants
    /\ \E user_id \in UserIds, price_id \in DOMAIN StripePrices,
          payment_intent_id \in PaymentIntentIds :
          LET table == grant_entitlement(entitlements, user_id, price_id, payment_intent_id)
          IN  /\ entitlements' = table
              /\ granted' = WithPaymentIntent(table, payment_intent_id)[1].id
    /\ UNCHANGED <<users, referrals, delivered, webhook_response, access_check>>
    /\ UNCHANGED exceptPayAccess

\* revoke_entitlement (lines 95-109)
RevokeEntitlement ==
    /\ \E entitlement_id \in 1 .. MaxGrants :
          entitlements' = IF entitlement_id \in 1 .. Len(entitlements)
                          THEN [entitlements EXCEPT ![entitlement_id].status = "refunded"]
                          ELSE entitlements
    /\ UNCHANGED <<users, referrals, delivered, webhook_response, granted, access_check>>
    /\ UNCHANGED exceptPayAccess

CheckEntitlement ==
    /\ \E user_id \in UserIds, price_id \in DOMAIN StripePrices :
          access_check' = [fn |-> "check_entitlement", user_id |-> user_id,
                           target |-> price_id, product |-> "None",
                           result |-> check_entitlement(user_id, price_id)]
    /\ UNCHANGED exceptAccess

CheckProductAccess ==
    /\ \E user_id \in UserIds, product_id \in ProductIds :
          access_check' = [fn |-> "check_product_access", user_id |-> user_id,
                           target |-> product_id, product |-> product_id,
                           result |-> check_product_access(user_id, product_id)]
    /\ UNCHANGED exceptAccess

CheckCourseAccess ==
    /\ \E user_id \in UserIds, course \in Courses :
          access_check' = [fn |-> "check_course_access", user_id |-> user_id,
                           target |-> course.category,
                           product |-> course.stripe_product_id,
                           result |-> check_course_access(user_id, course)]
    /\ UNCHANGED exceptAccess

PoolIdle ==
    /\ pool_tasks = <<>>
    /\ agent_outcome = <<>>
    /\ worker_pc = <<>>
    /\ transcript_files = [agent_name \in {"test_creator", "test_augmentor"} |-> <<>>]
    /\ future_result = <<>>
    /\ collected = {}
    /\ pool_results = [created |-> <<>>, augmented |-> <<>>, failed |-> <<>>]

(***************************************************************************)
(* The worker pool of execute_test_actions_parallel (adw_test.py           *)
(* 1122-1181): every task runs create_or_augment_test in its own thread,   *)
(* which calls execute_template and prompt_claude_code (agent.py); the     *)
(* main thread collects the futures as they complete.  max_workers is 5,   *)
(* more than the tasks modelled, so all of them may run at once.           *)
(***************************************************************************)
MaxPoolTasks == 2

\* How the agent invocation of one task ends: a result message without or
\* with is_error, a non-zero return code, or an exception raised in the
\* worker before the agent is called.
AgentOutcomes == {"success", "is_error", "nonzero", "exception"}

\* agent_name of the request (lines 1040 and 1071); adw_id is the same for
\* every task of a run.
AgentName(task) ==
    IF task.action_type = "create" THEN "test_creator" ELSE "test_augmentor"

\* output_file of execute_template (agent.py 391-397):
\* agents/<adw_id>/<agent_name>/raw_output.jsonl, named here by agent_name.
OutputFile(task) == AgentName(task)

\* prompt_claude_code after the process has exited (agent.py 310-349): the
\* success flag and the invocation whose result line it was read from (0:
\* no result line, 'return raw output').
ParsedResponse(t, outcome, result_lines) ==
    IF outcome = "nonzero" THEN [success |-> FALSE, source |-> t]
    ELSE IF result_lines = <<>> THEN [success |-> TRUE, source |-> 0]
    ELSE [success |-> ~Last(result_lines).is_error, source |-> Last(result_lines).writer]

ResultKey_by_success_only(action_type, raised, success) ==
    IF raised \/ ~success THEN "failed" ELSE "created"

\* result_key of the as_completed loop (lines 1158-1179)
ResultKey(action_type, raised, success) ==
    IF raised \/ ~success THEN "failed"
    ELSE IF action_type = "create" THEN "created"
    ELSE IF action_type = "augment" THEN "augmented"
    ELSE "failed"

PoolInit ==
    /\ \E kinds \in SeqsUpTo(ActionKinds, MaxPoolTasks) :
          pool_tasks = TaskList([create |-> FilesOf(kinds, "create", 1),
                                 augment |-> FilesOf(kinds, "augment", 1),
                                 replace |-> FilesOf(kinds, "replace", 1)])
    /\ agent_outcome \in [1 .. Len(pool_tasks) -> AgentOutcomes]
    /\ worker_pc = [t \in 1 .. Len(pool_tasks) |-> "submitted"]
    /\ transcript_files = [agent_name \in {"test_creator", "test_augmentor"} |-> <<>>]
    /\ future_result = [t \in 1 .. Len(pool_tasks) |-> [success |-> FALSE, source |-> 0]]
    /\ collected = {}
    /\ pool_results = [created |-> <<>>, augmented |-> <<>>, failed |-> <<>>]

\* The worker starts the agent: `with open(request.output_file, "w") as f`
\* (agent.py 300) truncates the file.
WorkerOpen ==
    /\ \E t \in DOMAIN pool_tasks :
          /\ worker_pc[t] = "submitted"
          /\ agent_outcome[t] # "exception"
          /\ worker_pc' = [worker_pc EXCEPT ![t] = "running"]
          /\ transcript_files' = [transcript_files EXCEPT ![OutputFile(pool_tasks[t])] = <<>>]
    /\ UNCHANGED <<pool_tasks, agent_outcome, future_result, collected, pool_results>>
    /\ UNCHANGED exceptPool

\* The worker raises before it calls the agent.
WorkerRaise ==
    /\ \E t \in DOMAIN pool_tasks :
          /\ worker_pc[t] = "submitted"
          /\ agent_outcome[t] = "exception"
          /\ worker_pc' = [worker_pc EXCEPT ![t] = "raised"]
    /\ UNCHANGED <<pool_tasks, agent_outcome, transcript_files, future_result, collected,
                   pool_results>>
    /\ UNCHANGED exceptPool

\* subprocess.run returns (agent.py 301-308): the process has written its
\* stream, ending with its result line, to the file.
WorkerProcessExit ==
    /\ \E t \in DOMAIN pool_tasks :
          /\ worker_pc[t] = "running"
          /\ worker_pc' = [worker_pc EXCEPT ![t] = "exited"]
          /\ transcript_files' =
                IF agent_outcome[t] = "nonzero" THEN transcript_files
                ELSE [transcript_files EXCEPT ![OutputFile(pool_tasks[t])] =
                         Append(@, [writer |-> t,
                                    is_error |-> agent_outcome[t] = "is_error"])]
    /\ UNCHANGED <<pool_tasks, agent_outcome, future_result, collected, pool_results>>
    /\ UNCHANGED exceptPool

\* The worker parses the file (agent.py 310-349) and create_or_augment_test
\* returns (response.success, test_file) (lines 1078-1084).
WorkerParse ==
    /\ \E t \in DOMAIN pool_tasks :
          /\ worker_pc[t] = "exited"
          /\ worker_pc' = [worker_pc EXCEPT ![t] = "returned"]
          /\ future_result' = [future_result EXCEPT ![t] =
                ParsedResponse(t, agent_outcome[t],
                               transcript_files[OutputFile(pool_tasks[t])])]
    /\ UNCHANGED <<pool_tasks, agent_outcome, transcript_files, collected, pool_results>>
    /\ UNCHANGED exceptPool

\* One iteration of `for future in as_completed(futures)` (lines 1156-1179).
CollectCompleted ==
    /\ \E t \in DOMAIN pool_tasks \ collected :
          /\ worker_pc[t] \in {"returned", "raised"}
          /\ collected' = collected \cup {t}
          /\ pool_results' =
                [pool_results EXCEPT
                    ![ResultKey(pool_tasks[t].action_type, worker_pc[t] = "raised",
                                future_result[t].success)] = Append(@, pool_tasks[t].file)]
    /\ UNCHANGED <<pool_tasks, agent_outcome, worker_pc, transcript_files, future_result>>
    /\ UNCHANGED exceptPool

FixIdle ==
    /\ fix_pc = "idle"
    /\ fix_file = "None"
    /\ fix_max_attempts = 0
    /\ fix_attempt = 0
    /\ fix_error_output = 0
    /\ fix_log = <<>>
    /\ fix_result = "none"

(***************************************************************************)
(* attempt_test_fix (adw_test.py 1254-1320; adw_test_iso.py 1122-1192).    *)
(***************************************************************************)
MaxFixAttempts == 3

\* Where a test file lives.
TestFileLocations == {"app/server/tests/test_a.py", "app/client/tests/test_a.py", "tests/test_a.py"}

\* cwd of the re-run (lines 1295-1303)
RerunCwd(test_file) ==
    IF test_file = "app/server/tests/test_a.py" THEN "app/server"
    ELSE IF test_file = "app/client/tests/test_a.py" THEN "app/client"
    ELSE "."

\* What one pass through the loop body meets: the file cannot be read, the
\* fix agent fails, or the fix agent succeeds and the re-run exits with
\* zero or not.
FixAttemptEvents == {"unreadable", "fix_failed", "rerun_zero", "rerun_nonzero"}

AttemptsLeft_one_more(started, limit) == started + 1 \in 1 .. limit + 1

\* range(1, max_attempts + 1) has a value left after `started` attempts
\* (line 1263)
AttemptsLeft(started, limit) == started + 1 \in 1 .. limit

\* the loop body falls through to the next attempt (lines 1290-1292, 1317)
FixGoesOn(event) == event \in {"fix_failed", "rerun_nonzero"}

FixInit ==
    /\ fix_pc = "loop"
    /\ fix_file \in TestFileLocations
    /\ fix_max_attempts \in 0 .. MaxFixAttempts
    /\ fix_attempt = 0
    /\ fix_error_output = 0
    /\ fix_log = <<>>
    /\ fix_result = "none"

\* One pass through the body of `for attempt in range(1, max_attempts + 1)`.
FixAttempt ==
    /\ fix_pc = "loop"
    /\ AttemptsLeft(fix_attempt, fix_max_attempts)
    /\ fix_attempt' = fix_attempt + 1
    /\ \E event \in FixAttemptEvents :
          /\ fix_log' = Append(fix_log,
                [attempt |-> fix_attempt + 1,
                 invoked |-> event # "unreadable",
                 error_output |-> fix_error_output,
                 rerun |-> event \in {"rerun_zero", "rerun_nonzero"},
                 cwd |-> IF event \in {"rerun_zero", "rerun_nonzero"}
                         THEN RerunCwd(fix_file) ELSE "None",
                 returncode_zero |-> event = "rerun_zero"])
          /\ fix_error_output' = IF event = "rerun_nonzero" THEN fix_attempt + 1
                                 ELSE fix_error_output
          /\ IF FixGoesOn(event)
             THEN UNCHANGED <<fix_pc, fix_result>>
             ELSE /\ fix_pc' = "returned"
                  /\ fix_result' = IF event = "rerun_zero" THEN "true" ELSE "false"
    /\ UNCHANGED <<fix_file, fix_max_attempts>>
    /\ UNCHANGED exceptFix

\* The loop is exhausted: return False (line 1320).
FixGiveUp ==
    /\ fix_pc = "loop"
    /\ ~AttemptsLeft(fix_attempt, fix_max_attempts)
    /\ fix_pc' = "returned"
    /\ fix_result' = "false"
    /\ UNCHANGED <<fix_file, fix_max_attempts, fix_attempt, fix_error_output, fix_log>>
    /\ UNCHANGED exceptFix

DetermineIdle ==
    /\ det_pc = "idle"
    /\ det_categorized = [missing |-> <<>>, obviously_broken |-> <<>>, needs_validation |-> <<>>]
    /\ det_validation = <<>>
    /\ det_actions = [skip |-> <<>>, create |-> <<>>, replace |-> <<>>, augment |-> <<>>]

(***************************************************************************)
(* determine_actions (adw_test.py 951-1002), on what categorize_tests_fast *)
(* and validate_tests_batch_with_ai return.  A requirement is named by the *)
(* number of its test file.                                                *)
(***************************************************************************)
MaxDetFiles == 2
MaxValidationResults == 2

FastCategories == {"missing", "obviously_broken", "needs_validation"}

\* The requirements of one category, in order (categorize_tests_fast puts
\* each requirement in one list).
RECURSIVE InFastCategory(_, _, _)
InFastCategory(assignment, category, i) ==
    IF i > Len(assignment) THEN <<>>
    ELSE (IF assignment[i] = category THEN <<i>> ELSE <<>>) \o
         InFastCategory(assignment, category, i + 1)

\* One entry of the validator's list: test_file_path (9 is a path no
\* requirement has) and recommendation ("None": the key is absent).
ValidationResults ==
    [test_file_path : (1 .. MaxDetFiles) \cup {9},
     recommendation : {"None", "complete", "augment", "replace", "rewrite"}]

\* result.get("recommendation", "complete")
Recommendation(result) ==
    IF result.recommendation = "None" THEN "complete" ELSE result.recommendation

\* next((req for req in needs_validation if path == test_file), None);
\* 0 for None
OriginalReq(needs_validation, test_file) ==
    IF \E k \in 1 .. Len(needs_validation) : needs_validation[k] = test_file
    THEN test_file ELSE 0

\* the body of `for result in validation_results` (lines 966-991)
ApplyResult(acts, needs_validation, result) ==
    LET original_req == OriginalReq(needs_validation, result.test_file_path)
        recommendation == Recommendation(result)
    IN  IF original_req = 0 THEN acts
        ELSE IF recommendation = "complete"
             THEN [acts EXCEPT !.skip = Append(@, original_req)]
        ELSE IF recommendation = "augment"
             THEN [acts EXCEPT !.augment = Append(@, original_req)]
        ELSE IF recommendation = "replace"
             THEN [acts EXCEPT !.replace = Append(@, original_req)]
        ELSE acts

RECURSIVE ApplyResults(_, _, _, _)
ApplyResults(acts, needs_validation, validation_results, i) ==
    IF i > Len(validation_results) THEN acts
    ELSE ApplyResults(ApplyResult(acts, needs_validation, validation_results[i]),
                      needs_validation, validation_results, i + 1)

\* determine_actions(categorized, validation_results)
determine_actions(categorized, validation_results) ==
    ApplyResults([skip |-> <<>>, create |-> categorized.missing,
                  replace |-> categorized.obviously_broken, augment |-> <<>>],
                 categorized.needs_validation, validation_results, 1)

DetermineInit ==
    /\ det_pc = "called"
    /\ \E assignment \in SeqsUpTo(FastCategories, MaxDetFiles) :
          det_categorized =
             [missing |-> InFastCategory(assignment, "missing", 1),
              obviously_broken |-> InFastCategory(assignment, "obviously_broken", 1),
              needs_validation |-> InFastCategory(assignment, "needs_validation", 1)]
    /\ det_validation \in SeqsUpTo(ValidationResults, MaxValidationResults)
    /\ det_actions = [skip |-> <<>>, create |-> <<>>, replace |-> <<>>, augment |-> <<>>]

DetermineActions ==
    /\ det_pc = "called"
    /\ det_actions' = determine_actions(det_categorized, det_validation)
    /\ det_pc' = "returned"
    /\ UNCHANGED <<det_categorized, det_validation>>
    /\ UNCHANGED exceptDet

ReferralCallsIdle ==
    /\ referral_calls = <<>>

(***************************************************************************)
(* The status of one referral: referral_service.py, confirm_referral and   *)
(* apply_referral_credit called in any order.                              *)
(***************************************************************************)
MaxReferralCalls == 4

\* confirm_referral (lines 127-140): the referrals table afterwards
confirm_referral(table, referral_id) ==
    IF referral_id \in 1 .. Len(table)
    THEN [table EXCEPT ![referral_id].status = "confirmed"]
    ELSE table

\* One pending referral of user 1, as create_referral stores it.
ReferralInit ==
    /\ users = InitialUsers
    /\ entitlements = <<>>
    /\ referrals = create_referral(<<>>, 1, "two@example.com", "pi_1")
    /\ delivered = <<>>
    /\ webhook_response = "none"
    /\ granted = 0
    /\ referral_calls = <<>>

ConfirmReferral ==
    /\ Len(referral_calls) < MaxReferralCalls
    /\ \E referral_id \in {1, 2} :
          /\ referrals' = confirm_referral(referrals, referral_id)
          /\ referral_calls' = Append(referral_calls,
                [fn |-> "confirm_referral", referral_id |-> referral_id,
                 status_before |-> referrals[1].status,
                 status_after |-> referrals'[1].status,
                 credited |-> 0])
    /\ UNCHANGED <<users, entitlements, delivered, webhook_response, granted>>
    /\ UNCHANGED exceptPayRef

ApplyReferralCredit ==
    /\ Len(referral_calls) < MaxReferralCalls
    /\ \E referrer_id \in {1, 3}, amount \in {249, 500}, referral_id \in {1, 2} :
          LET after == apply_referral_credit(users, referrals, referrer_id, amount,
                                             referral_id)
          IN  /\ users' = after.users
              /\ referrals' = after.referrals
              /\ referral_calls' = Append(referral_calls,
                    [fn |-> "apply_referral_credit", referral_id |-> referral_id,
                     status_before |-> referrals[1].status,
                     status_after |-> after.referrals[1].status,
                     credited |-> after.users[1].referral_credits -
                                  users[1].referral_credits])
    /\ UNCHANGED <<entitlements, delivered, webhook_response, granted>>
    /\ UNCHANGED exceptPayRef

ConcurrentIdle ==
    /\ con_pc = <<>>
    /\ con_local = <<>>

(***************************************************************************)
(* Two deliveries of one payment_intent.succeeded event handled at the     *)
(* same time: stripe_webhook is a coroutine with its own database session, *)
(* and another delivery can run at every awaited database call.  A step is *)
(* one query or one commit.                                                *)
(***************************************************************************)
Deliveries == {1, 2}

\* Events whose metadata names the buyer (user 2) and a referrer (user 1).
ReferredEvents == {e \in Events : e.user_id = 2 /\ e.referrer_id = 1}

\* The event in flight.
TheEvent == delivered[1]

NoLocals == [referral_id |-> 0, credits_read |-> 0]

ConcurrentInit ==
    /\ users = InitialUsers
    /\ entitlements = <<>>
    /\ referrals = <<>>
    /\ \E e \in ReferredEvents : delivered = <<e, e>>
    /\ webhook_response = "none"
    /\ granted = 0
    /\ con_pc = [d \in Deliveries |-> "grant_select"]
    /\ con_local = [d \in Deliveries |-> NoLocals]

\* grant_entitlement, the select (entitlement_service.py 27-34)
GrantSelect ==
    /\ \E d \in Deliveries :
          /\ con_pc[d] = "grant_select"
          /\ con_pc' = [con_pc EXCEPT ![d] =
                IF WithPaymentIntent(entitlements, TheEvent.id) # <<>>
                THEN "referral_select" ELSE "grant_commit"]
    /\ UNCHANGED <<users, entitlements, referrals, delivered, webhook_response, granted,
                   con_local>>
    /\ UNCHANGED exceptPayCon

\* grant_entitlement, add and commit (lines 37-46); the unique constraint
\* on stripe_payment_intent_id makes the second insert fail, and the
\* webhook answers with status error (payments.py 233-235).
GrantCommit ==
    /\ \E d \in Deliveries :
          /\ con_pc[d] = "grant_commit"
          /\ IF WithPaymentIntent(entitlements, TheEvent.id) # <<>>
             THEN /\ con_pc' = [con_pc EXCEPT ![d] = "error"]
                  /\ UNCHANGED entitlements
             ELSE /\ con_pc' = [con_pc EXCEPT ![d] = "referral_select"]
                  /\ entitlements' = grant_entitlement(entitlements, TheEvent.user_id,
                                                       TheEvent.price_id, TheEvent.id)
    /\ UNCHANGED <<users, referrals, delivered, webhook_response, granted, con_local>>
    /\ UNCHANGED exceptPayCon

\* create_referral, the duplicate check (referral_service.py 105-112);
\* scalar_one_or_none raises when two rows match, and the webhook logs it.
ReferralSelect ==
    /\ \E d \in Deliveries :
          /\ con_pc[d] = "referral_select"
          /\ LET existing == WithPaymentIntent(referrals, TheEvent.id)
             IN  IF Len(existing) > 1
                 THEN /\ con_pc' = [con_pc EXCEPT ![d] = "success"]
                      /\ UNCHANGED con_local
                 ELSE IF Len(existing) = 1
                 THEN /\ con_pc' = [con_pc EXCEPT ![d] = "credit_select"]
                      /\ con_local' = [con_local EXCEPT ![d].referral_id = existing[1].id]
                 ELSE /\ con_pc' = [con_pc EXCEPT ![d] = "referral_insert"]
                      /\ UNCHANGED con_local
    /\ UNCHANGED <<users, entitlements, referrals, delivered, webhook_response, granted>>
    /\ UNCHANGED exceptPayCon

\* create_referral, add and commit (lines 114-124); the referrals table has
\* no unique constraint on stripe_payment_intent_id (models.py 124).
ReferralInsert ==
    /\ \E d \in Deliveries :
          /\ con_pc[d] = "referral_insert"
          /\ referrals' = Append(referrals,
                [id |-> Len(referrals) + 1, referrer_id |-> TheEvent.referrer_id,
                 referee_email |-> EventEmail(TheEvent),
                 stripe_payment_intent_id |-> TheEvent.id, status |-> "pending"])
          /\ con_local' = [con_local EXCEPT ![d].referral_id = Len(referrals) + 1]
          /\ con_pc' = [con_pc EXCEPT ![d] = "credit_select"]
    /\ UNCHANGED <<users, entitlements, delivered, webhook_response, granted>>
    /\ UNCHANGED exceptPayCon

\* apply_referral_credit, the selects (lines 158-173): the referral and the
\* referrer are loaded into the session.
CreditSelect ==
    /\ \E d \in Deliveries :
          /\ con_pc[d] = "credit_select"
          /\ IF AlreadyCredited(referrals[con_local[d].referral_id])
             THEN /\ con_pc' = [con_pc EXCEPT ![d] = "success"]
                  /\ UNCHANGED con_local
             ELSE /\ con_pc' = [con_pc EXCEPT ![d] = "credit_commit"]
                  /\ con_local' = [con_local EXCEPT ![d].credits_read =
                                      users[TheEvent.referrer_id].referral_credits]
    /\ UNCHANGED <<users, entitlements, referrals, delivered, webhook_response, granted>>
    /\ UNCHANGED exceptPayCon

\* apply_referral_credit, the update and commit (lines 175-181): the value
\* written is the one computed from what the session loaded.
CreditCommit ==
    /\ \E d \in Deliveries :
          /\ con_pc[d] = "credit_commit"
          /\ users' = [users EXCEPT ![TheEvent.referrer_id].referral_credits =
                          con_local[d].credits_read + CreditAmount(TheEvent.amount)]
          /\ referrals' = [referrals EXCEPT ![con_local[d].referral_id].status = "credited"]
          /\ con_pc' = [con_pc EXCEPT ![d] = "success"]
    /\ UNCHANGED <<entitlements, delivered, webhook_response, granted, con_local>>
    /\ UNCHANGED exceptPayCon

(***************************************************************************)
(* Specifications.                                                         *)
(***************************************************************************)
InitModel == ModelInit /\ InvokeIdle /\ AgentIdle /\ LoopIdle /\ PhaseIdle /\ TestLocalsIdle /\ StateIdle /\ CatIdle /\ EnsuranceIdle /\ TrackerIdle /\ PaymentsIdle /\ MagicLinkIdle /\ AccessIdle /\ PoolIdle /\ FixIdle /\ DetermineIdle /\ ReferralCallsIdle /\ ConcurrentIdle
NextModel == ResolveModel
SpecModel == InitModel /\ [][NextModel]_vars

InitInvoke == ModelIdle /\ InvokeInit /\ AgentIdle /\ LoopIdle /\ PhaseIdle /\ TestLocalsIdle /\ StateIdle /\ CatIdle /\ EnsuranceIdle /\ TrackerIdle /\ PaymentsIdle /\ MagicLinkIdle /\ AccessIdle /\ PoolIdle /\ FixIdle /\ DetermineIdle /\ ReferralCallsIdle /\ ConcurrentIdle
NextInvoke == Invoke
SpecInvoke == InitInvoke /\ [][NextInvoke]_vars

InitRetry == ModelIdle /\ InvokeIdle /\ AgentInit /\ LoopIdle /\ PhaseIdle /\ TestLocalsIdle /\ StateIdle /\ CatIdle /\ EnsuranceIdle /\ TrackerIdle /\ PaymentsIdle /\ MagicLinkIdle /\ AccessIdle /\ PoolIdle /\ FixIdle /\ DetermineIdle /\ ReferralCallsIdle /\ ConcurrentIdle
NextRetry == EnterRetry \/ Attempt
SpecRetry == InitRetry /\ [][NextRetry]_vars

InitLoop == ModelIdle /\ InvokeIdle /\ AgentIdle /\ LoopInit /\ PhaseIdle /\ TestLocalsIdle /\ StateIdle /\ CatIdle /\ EnsuranceIdle /\ TrackerIdle /\ PaymentsIdle /\ MagicLinkIdle /\ AccessIdle /\ PoolIdle /\ FixIdle /\ DetermineIdle /\ ReferralCallsIdle /\ ConcurrentIdle
NextLoop == LoopNext
SpecLoop == InitLoop /\ [][NextLoop]_vars
InitPlan == ModelIdle /\ InvokeIdle /\ AgentIdle /\ LoopIdle /\ PlanInit /\ TestLocalsIdle /\ StateIdle /\ CatIdle /\ EnsuranceIdle /\ TrackerIdle /\ PaymentsIdle /\ MagicLinkIdle /\ AccessIdle /\ PoolIdle /\ FixIdle /\ DetermineIdle /\ ReferralCallsIdle /\ ConcurrentIdle
NextPlan == PlanNext
SpecPlan == InitPlan /\ [][NextPlan]_vars

InitBuild == ModelIdle /\ InvokeIdle /\ AgentIdle /\ LoopIdle /\ BuildInit /\ TestLocalsIdle /\ StateIdle /\ CatIdle /\ EnsuranceIdle /\ TrackerIdle /\ PaymentsIdle /\ MagicLinkIdle /\ AccessIdle /\ PoolIdle /\ FixIdle /\ DetermineIdle /\ ReferralCallsIdle /\ ConcurrentIdle
NextBuild == BuildNext
SpecBuild == InitBuild /\ [][NextBuild]_vars

InitTest == ModelIdle /\ InvokeIdle /\ AgentIdle /\ TestLoopInit /\ TestInit /\ StateIdle /\ CatIdle /\ EnsuranceIdle /\ TrackerIdle /\ PaymentsIdle /\ MagicLinkIdle /\ AccessIdle /\ PoolIdle /\ FixIdle /\ DetermineIdle /\ ReferralCallsIdle /\ ConcurrentIdle
\* main() calls both loops with their default max_attempts (4 and 2), so the
\* `while` condition holds on entry and the loops leave by their breaks.
NextTest == TestNext \/ RunTests \/ RunE2ETests \/ ResolveOne \/ EndRound
SpecTest == InitTest /\ [][NextTest]_vars

InitTestIso == ModelIdle /\ InvokeIdle /\ AgentIdle /\ LoopIdle /\ TestIsoInit /\ StateIdle /\ CatIdle /\ EnsuranceIdle /\ TrackerIdle /\ PaymentsIdle /\ MagicLinkIdle /\ AccessIdle /\ PoolIdle /\ FixIdle /\ DetermineIdle /\ ReferralCallsIdle /\ ConcurrentIdle
NextTestIso ==
    TestIsoNext \/ RunTests \/ TestDoctorRerun \/ RunE2ETestsIso \/ ResolveOne \/ EndRound
SpecTestIso == InitTestIso /\ [][NextTestIso]_vars

InitState == ModelIdle /\ InvokeIdle /\ AgentIdle /\ LoopIdle /\ PhaseIdle /\ TestLocalsIdle /\ StateInit /\ CatIdle /\ EnsuranceIdle /\ TrackerIdle /\ PaymentsIdle /\ MagicLinkIdle /\ AccessIdle /\ PoolIdle /\ FixIdle /\ DetermineIdle /\ ReferralCallsIdle /\ ConcurrentIdle
NextState == AppendAdwId
SpecState == InitState /\ [][NextState]_vars

InitCat == ModelIdle /\ InvokeIdle /\ AgentIdle /\ LoopIdle /\ PhaseIdle /\ TestLocalsIdle /\ StateIdle /\ CatInit /\ EnsuranceIdle /\ TrackerIdle /\ PaymentsIdle /\ MagicLinkIdle /\ AccessIdle /\ PoolIdle /\ FixIdle /\ DetermineIdle /\ ReferralCallsIdle /\ ConcurrentIdle
NextCat == CategorizeOne
SpecCat == InitCat /\ [][NextCat]_vars

InitEnsurance == ModelIdle /\ InvokeIdle /\ AgentIdle /\ LoopIdle /\ PhaseIdle /\ TestLocalsIdle /\ StateIdle /\ CatIdle /\ EnsuranceInit /\ TrackerIdle /\ PaymentsIdle /\ MagicLinkIdle /\ AccessIdle /\ PoolIdle /\ FixIdle /\ DetermineIdle /\ ReferralCallsIdle /\ ConcurrentIdle
NextEnsurance == CollectFuture \/ ExecutionDone \/ ValidateOne \/ BuildReport
SpecEnsurance == InitEnsurance /\ [][NextEnsurance]_vars

InitTracker == ModelIdle /\ InvokeIdle /\ AgentIdle /\ LoopIdle /\ PhaseIdle /\ TestLocalsIdle /\ StateIdle /\ CatIdle /\ EnsuranceIdle /\ TrackerInit /\ PaymentsIdle /\ MagicLinkIdle /\ AccessIdle /\ PoolIdle /\ FixIdle /\ DetermineIdle /\ ReferralCallsIdle /\ ConcurrentIdle
NextTracker == UpdatePatternTracker
SpecTracker == InitTracker /\ [][NextTracker]_vars

InitWebhook == ModelIdle /\ InvokeIdle /\ AgentIdle /\ LoopIdle /\ PhaseIdle /\ TestLocalsIdle /\ StateIdle /\ CatIdle /\ EnsuranceIdle /\ TrackerIdle /\ PaymentsInit /\ MagicLinkIdle /\ AccessIdle /\ PoolIdle /\ FixIdle /\ DetermineIdle /\ ReferralCallsIdle /\ ConcurrentIdle
NextWebhook == DeliverAny
SpecWebhook == InitWebhook /\ [][NextWebhook]_vars

InitRedelivery == ModelIdle /\ InvokeIdle /\ AgentIdle /\ LoopIdle /\ PhaseIdle /\ TestLocalsIdle /\ StateIdle /\ CatIdle /\ EnsuranceIdle /\ TrackerIdle /\ PaymentsInit /\ MagicLinkIdle /\ AccessIdle /\ PoolIdle /\ FixIdle /\ DetermineIdle /\ ReferralCallsIdle /\ ConcurrentIdle
NextRedelivery == FirstDelivery \/ Redelivery
SpecRedelivery == InitRedelivery /\ [][NextRedelivery]_vars

InitMagicLink == ModelIdle /\ InvokeIdle /\ AgentIdle /\ LoopIdle /\ PhaseIdle /\ TestLocalsIdle /\ StateIdle /\ CatIdle /\ EnsuranceIdle /\ TrackerIdle /\ PaymentsIdle /\ MagicLinkInit /\ AccessIdle /\ PoolIdle /\ FixIdle /\ DetermineIdle /\ ReferralCallsIdle /\ ConcurrentIdle
NextMagicLink == GenerateMagicLink \/ ValidateMagicLink \/ ClockTick
SpecMagicLink == InitMagicLink /\ [][NextMagicLink]_vars

InitAccess == ModelIdle /\ InvokeIdle /\ AgentIdle /\ LoopIdle /\ PhaseIdle /\ TestLocalsIdle /\ StateIdle /\ CatIdle /\ EnsuranceIdle /\ TrackerIdle /\ MagicLinkIdle /\ AccessInit /\ PoolIdle /\ FixIdle /\ DetermineIdle /\ ReferralCallsIdle /\ ConcurrentIdle
NextAccess == GrantEntitlement \/ RevokeEntitlement \/ CheckEntitlement \/ CheckProductAccess \/ CheckCourseAccess
SpecAccess == InitAccess /\ [][NextAccess]_vars

InitPool == ModelIdle /\ InvokeIdle /\ AgentIdle /\ LoopIdle /\ PhaseIdle /\ TestLocalsIdle /\ StateIdle /\ CatIdle /\ EnsuranceIdle /\ TrackerIdle /\ PaymentsIdle /\ MagicLinkIdle /\ AccessIdle /\ PoolInit /\ FixIdle /\ DetermineIdle /\ ReferralCallsIdle /\ ConcurrentIdle
NextPool == WorkerOpen \/ WorkerRaise \/ WorkerProcessExit \/ WorkerParse \/ CollectCompleted
SpecPool == InitPool /\ [][NextPool]_vars

InitFix == ModelIdle /\ InvokeIdle /\ AgentIdle /\ LoopIdle /\ PhaseIdle /\ TestLocalsIdle /\ StateIdle /\ CatIdle /\ EnsuranceIdle /\ TrackerIdle /\ PaymentsIdle /\ MagicLinkIdle /\ AccessIdle /\ PoolIdle /\ FixInit /\ DetermineIdle /\ ReferralCallsIdle /\ ConcurrentIdle
NextFix == FixAttempt \/ FixGiveUp
SpecFix == InitFix /\ [][NextFix]_vars

\* attempt_test_fix is sequential code: its next step is always taken.
SpecFixFair == InitFix /\ [][NextFix]_vars /\ WF_vars(NextFix)

InitDetermine == ModelIdle /\ InvokeIdle /\ AgentIdle /\ LoopIdle /\ PhaseIdle /\ TestLocalsIdle /\ StateIdle /\ CatIdle /\ EnsuranceIdle /\ TrackerIdle /\ PaymentsIdle /\ MagicLinkIdle /\ AccessIdle /\ PoolIdle /\ FixIdle /\ DetermineInit /\ ReferralCallsIdle /\ ConcurrentIdle
NextDetermine == DetermineActions
SpecDetermine == InitDetermine /\ [][NextDetermine]_vars

InitReferral == ModelIdle /\ InvokeIdle /\ AgentIdle /\ LoopIdle /\ PhaseIdle /\ TestLocalsIdle /\ StateIdle /\ CatIdle /\ EnsuranceIdle /\ TrackerIdle /\ MagicLinkIdle /\ PoolIdle /\ FixIdle /\ DetermineIdle /\ ReferralInit /\ AccessIdle /\ ConcurrentIdle
NextReferral == ConfirmReferral \/ ApplyReferralCredit
SpecReferral == InitReferral /\ [][NextReferral]_vars

InitConcurrent == ModelIdle /\ InvokeIdle /\ AgentIdle /\ LoopIdle /\ PhaseIdle /\ TestLocalsIdle /\ StateIdle /\ CatIdle /\ EnsuranceIdle /\ TrackerIdle /\ MagicLinkIdle /\ AccessIdle /\ PoolIdle /\ FixIdle /\ DetermineIdle /\ ReferralCallsIdle /\ ConcurrentInit
NextConcurrent == GrantSelect \/ GrantCommit \/ ReferralSelect \/ ReferralInsert \/ CreditSelect \/ CreditCommit
SpecConcurrent == InitConcurrent /\ [][NextConcurrent]_vars

\* The loops are sequential code: a step that can be taken is taken.
SpecLoopFair == SpecLoop /\ WF_vars(NextLoop)

(***************************************************************************)
(* Properties of the agent invoker.                                        *)
(***************************************************************************)
AllFailed(flags) == \A i \in 1 .. Len(flags) : ~flags[i]

\* C1: prompt_claude_code_with_retry calls prompt_claude_code until the first
\* success or until 1 + max_retries calls were made: no call follows a
\* success, a returned failure is the last of exactly max_retries + 1 calls,
\* and the value returned is the response of the last call.
RetryBound ==
    /\ Len(responses) <= max_retries + 1
    /\ responses # <<>> => AllFailed(SubSeq(responses, 1, Len(responses) - 1))
    /\ r_pc = "loop" => AllFailed(responses) /\ Len(responses) = attempt
    /\ r_pc = "returned" =>
          /\ responses # <<>>
          /\ returned = last_response
          /\ returned.success = Last(responses)
          /\ ~returned.success => Len(responses) = max_retries + 1

RetryExhausted ==
    /\ r_pc = "returned"
    /\ max_retries = DefaultMaxRetries
    /\ ~returned.success
    /\ Len(responses) = 4

\* C7: for a command of SLASH_COMMAND_MODEL_MAP the heavy model is returned
\* when the run state's model_set is heavy, the base model when it is base or
\* when no state exists; for a command not in the map the default is returned.
ModelSetOf(st) ==
    IF st.exists /\ "model_set" \in DOMAIN st.data THEN st.data.model_set ELSE "unset"

ModelResolution ==
    m_pc = "resolved" =>
        IF slash_command \in DOMAIN SLASH_COMMAND_MODEL_MAP
        THEN /\ ModelSetOf(stored_state) = "heavy" =>
                    model = SLASH_COMMAND_MODEL_MAP[slash_command].heavy
             /\ (ModelSetOf(stored_state) = "base" \/ ~stored_state.exists) =>
                    model = SLASH_COMMAND_MODEL_MAP[slash_command].base
        ELSE model = default_model

HeavyImplementResolved ==
    /\ m_pc = "resolved"
    /\ slash_command = "/implement"
    /\ ModelSetOf(stored_state) = "heavy"
    /\ model = "opus"

IsResultRecord(line) == line.k = "object" /\ line.type = "result"

HasResultRecord(t) == \E i \in 1 .. Len(t) : IsResultRecord(t[i])

\* C8: on exit code zero with no record of type result in the transcript
\* (also when every line is malformed or empty) prompt_claude_code returns
\* success, the raw transcript as output and no session id.
RawOutputFallback ==
    (i_pc = "done" /\ call.installed /\ call.outcome = "exit_zero"
        /\ ~HasResultRecord(call.transcript)) =>
            /\ response.success
            /\ response.output = [kind |-> "raw", raw |-> call.transcript]
            /\ response.session_id = "None"

AllMalformedFallback ==
    /\ i_pc = "done"
    /\ call.installed /\ call.outcome = "exit_zero"
    /\ call.transcript = <<MalformedLine, BlankLine>>
    /\ response.success
    /\ response.output.kind = "raw"

\* The last record of type result of a transcript that has one.
LastResultRecord(t) ==
    t[CHOOSE i \in 1 .. Len(t) :
        /\ IsResultRecord(t[i])
        /\ \A j \in (i + 1) .. Len(t) : ~IsResultRecord(t[j])]

\* C9: a non-zero exit code yields failure; on exit code zero the last
\* well-formed record of type result decides: failure for subtype
\* error_during_execution, otherwise success exactly when is_error is not
\* set; lines that are not such records never change the decision.
OutcomeDecidedByLastResult ==
    (i_pc = "done" /\ call.installed) =>
        /\ call.outcome = "exit_nonzero" => ~response.success
        /\ (call.outcome = "exit_zero" /\ HasResultRecord(call.transcript)) =>
              LET last == LastResultRecord(call.transcript)
              IN  response.success =
                    (last.subtype # "error_during_execution" /\ last.is_error # "true")

\* C10 as stated: after a call whose version probe failed the wrapper makes
\* no further call (no retry).
ProbeFailureNotRetried ==
    [][(responses # <<>> /\ ~last_call.installed) => UNCHANGED <<probes, spawns>>]_vars

\* C10 as amended: a call whose version probe fails returns the failure
\* result at once and spawns no agent process; the wrapper retries it like
\* any other failure while retries remain.
ProbeFailureNoSpawn ==
    [][(probes' = probes + 1 /\ ~last_call'.installed) =>
          /\ spawns' = spawns
          /\ last_response' = Response("not_installed", <<>>, FALSE, "None")
          /\ attempt < max_retries => r_pc' = "loop" /\ attempt' = attempt + 1
          /\ attempt = max_retries => r_pc' = "returned" /\ returned' = last_response']_vars

ProbeFailedEveryAttempt ==
    /\ r_pc = "returned"
    /\ Len(responses) >= 2
    /\ ~last_call.installed
    /\ spawns = 0
    /\ returned.output.kind = "not_installed"

(***************************************************************************)
(* Properties of the test-resolution loops.                                *)
(***************************************************************************)
\* C2: both loops terminate whatever the test runner and the resolver do,
\* run the test suite at most max_attempts times, and a run that reports
\* zero failures ends the loop at that attempt with failed_count = 0.
LoopTerminatesWithinBudget ==
    /\ <>(t_pc = "done")
    /\ [](runs <= max_attempts)
    /\ [](last_run = "no_failures" =>
            t_pc = "done" /\ failed_count = 0 /\ runs = t_attempt)

ResolvedThenPassed ==
    /\ t_pc = "done"
    /\ max_attempts = MAX_TEST_RETRY_ATTEMPTS
    /\ runs = 2
    /\ round_outcomes = <<TRUE, TRUE>>
    /\ last_run = "no_failures"
    /\ failed_count = 0

SomeSucceeded(flags) == \E i \in 1 .. Len(flags) : flags[i]

\* C3: the test suite is re-run after a resolution round only if a resolver
\* call of that round reported success; a round that resolved nothing ends
\* the loop without another run, even when attempts remain.
RerunOnlyAfterResolution ==
    [][/\ (runs' = runs + 1 /\ runs > 0) => SomeSucceeded(round_outcomes)
       /\ (t_pc = "resolve" /\ idx = Len(failed_tests) /\ AllFailed(round_outcomes)) =>
             (t_pc' = "done" /\ runs' = runs)
       /\ t_pc = "done" => runs' # runs + 1]_vars

NothingResolvedStops ==
    /\ t_pc = "done"
    /\ last_run = "failures"
    /\ round_outcomes # <<>>
    /\ AllFailed(round_outcomes)
    /\ runs = 1
    /\ t_attempt < max_attempts

(***************************************************************************)
(* Properties of the Plan phase.                                           *)
(***************************************************************************)
PlanSequence ==
    <<"classify_issue", "state.save", "generate_branch_name", "create_branch",
      "state.save", "build_plan", "validate_plan_path", "state.save",
      "create_commit", "commit_changes", "finalize_git_operations", "state.save">>

GuardedSteps == {"git_checkout", "implement_plan", "create_commit", "commit_changes"}

StateReady ==
    disk.exists /\ Truthy(disk.data.branch_name) /\ Truthy(disk.data.plan_file)

\* C6: the Build phase (standard and isolated) checks out the branch, runs
\* the implementation command or commits only if a state record was loaded
\* that holds a non-empty branch_name and a non-empty plan_file; otherwise
\* it exits with code 1 before any of those steps.
BuildRequiresPlannedState ==
    IsBuild =>
        /\ (\E i \in 1 .. Len(steps) : steps[i].op \in GuardedSteps) => StateReady
        /\ ~StateReady =>
              /\ p_pc \in {"load_state", "check_environment", "require_fields", "exited"}
              /\ p_pc = "exited" => exit_code = 1

BuildRefusedEmptyPlanFile ==
    /\ script = "build_iso"
    /\ p_pc = "exited"
    /\ exit_code = 1
    /\ disk.exists
    /\ disk.data.branch_name = "feat-issue-1-adw-a"
    /\ disk.data.plan_file = ""
    /\ steps = <<>>
    /\ comments # <<>>
    /\ Last(comments) = "ops: No plan file in state"

(***************************************************************************)
(* Properties of the Test phase.                                           *)
(***************************************************************************)
\* main() of adw_test.py got to its last statements (the final status comment).
ReachedFinalStep ==
    /\ script = "test"
    /\ p_pc = "exited"
    /\ comments # <<>>
    /\ Last(comments) \in {"ops: Test suite completed with failures",
                           "ops: All tests passed successfully"}

\* C4: a Test phase run that reaches its final step exits with code 1 if and
\* only if unit failed_count + E2E failed_count > 0 (else with code 0), and
\* in both cases the commit of the test results and then the push/PR step
\* were attempted before the exit.
TestExitCode ==
    ReachedFinalStep =>
        /\ exit_code = IF main_failed_count + e2e_failed_count > 0 THEN 1 ELSE 0
        /\ \E i \in 1 .. Len(steps) :
              /\ steps[i].op = "create_commit"
              /\ \E j \in (i + 1) .. Len(steps) : steps[j].op = "finalize_git_operations"

E2EFailureExits1 ==
    /\ ReachedFinalStep
    /\ exit_code = 1
    /\ main_failed_count = 0
    /\ e2e_failed_count = 1
    /\ \E i \in 1 .. Len(steps) : steps[i] = Step("create_commit", FALSE)

(***************************************************************************)
(* Properties of the fatal exits of the phase scripts.                     *)
(***************************************************************************)
\* The issue comments by which the phase scripts describe a failure.
FailureComments ==
    {"ops: Error classifying issue", "ops: Error creating branch",
     "ops: Error generating branch name", "ops: Failed to checkout branch",
     "ops: No branch name in state", "ops: No plan file in state",
     "ops: No plan file path returned from planning agent",
     "ops: Plan file does not exist", "ops: Worktree validation failed",
     "sdlc_implementor: Error committing implementation",
     "sdlc_implementor: Error creating commit message",
     "sdlc_implementor: Error implementing solution",
     "sdlc_planner: Error building plan", "sdlc_planner: Error committing plan",
     "sdlc_planner: Error creating commit message",
     "test_runner: Error creating commit message",
     "test_runner: Error committing test results",
     "ops: Test suite completed with failures",
     "ops: Test workflow completed with failures"}

\* C11: every run of a phase script that ends in a fatal exit with code 1
\* has posted, as its last issue comment before the exit, a comment that
\* describes the failure.
FatalExitPostsComment ==
    (p_pc = "exited" /\ exit_code = 1) =>
        (comments # <<>> /\ Last(comments) \in FailureComments)

\* C12: a failure of the classification step never aborts the phase: no run
\* exits with code 1 with the failed classification as its last step.
ClassificationFailureNeverAborts ==
    ~(/\ p_pc = "exited"
      /\ exit_code = 1
      /\ steps # <<>>
      /\ Last(steps) = Step("classify_issue", FALSE))

\* C13: in the standard and in the isolated Test phase the end-to-end loop
\* is never started when the unit-test loop ended with failed_count > 0 or
\* when --skip-e2e was given.
E2ENotStartedAfterUnitFailure ==
    (script \in {"test", "test_iso"} /\ p_pc = "e2e_tests") =>
        (main_failed_count = 0 /\ ~skip_e2e)

(***************************************************************************)
(* Properties of the sub-workflow list.                                    *)
(***************************************************************************)
\* The position of the first occurrence of a name in a sequence.
FirstIndex(s, name) == CHOOSE i \in 1 .. Len(s) : s[i] = name /\ \A j \in 1 .. i - 1 : s[j] # name

\* C14: after any sequence of append_adw_id calls all_adws holds each
\* appended name exactly once, in the order of first insertion, and a call
\* with a name already present leaves the list unchanged.
SubWorkflowsDeduplicated ==
    /\ [](/\ Range(all_adws) = Range(appended)
          /\ \A i, j \in 1 .. Len(all_adws) : all_adws[i] = all_adws[j] => i = j
          /\ \A i, j \in 1 .. Len(all_adws) :
                i < j => FirstIndex(appended, all_adws[i]) < FirstIndex(appended, all_adws[j]))
    /\ [][(appended' # appended /\ Last(appended') \in Range(all_adws)) =>
             all_adws' = all_adws]_vars

DuplicateAppended ==
    /\ appended = <<"adw_build_iso", "adw_test_iso", "adw_build_iso">>
    /\ all_adws = <<"adw_build_iso", "adw_test_iso">>

(***************************************************************************)
(* Properties of categorize_tests_fast.                                    *)
(***************************************************************************)
Categories == {"missing", "obviously_broken", "needs_validation"}

\* The number of times a requirement index occurs in a category.
Occurrences(category, i) ==
    Cardinality({k \in 1 .. Len(cat_result[category]) : cat_result[category][k] = i})

InCategory(category, i) == Occurrences(category, i) = 1

\* C15: every requirement with a test_file_path is in exactly one category:
\* missing if the path does not exist or cannot be read; obviously_broken if
\* the file exists and its stripped content is shorter than 10 characters,
\* or has no def test_ signature, or does not contain assert;
\* needs_validation otherwise.
CategorizedExactlyOnce ==
    \A i \in 1 .. Len(requirements) :
        LET req == requirements[i]
            content == req.file.content
            present == req.file.exists /\ req.file.readable
            broken == \/ ContentLen(Strip(content)) < 10
                      \/ ~HasTestDef(content)
                      \/ ~HasAssert(content)
        IN  Truthy(req.path) =>
              /\ Cardinality({c \in Categories : Occurrences(c, i) > 0}) = 1
              /\ \A c \in Categories : Occurrences(c, i) <= 1
              /\ InCategory("missing", i) <=> ~present
              /\ InCategory("obviously_broken", i) <=> (present /\ broken)
              /\ InCategory("needs_validation", i) <=> (present /\ ~broken)

NoAssertIsBroken ==
    /\ Len(requirements) = 2
    /\ requirements[1].file.content = <<"def test_a", " ">>
    /\ requirements[1].file.readable
    /\ cat_result.obviously_broken = <<1>>
    /\ requirements[2].file.content = <<"def test_", "assert">>
    /\ cat_result.needs_validation = <<2>>

(***************************************************************************)
(* Properties of the Test-Ensurance pipeline.                              *)
(***************************************************************************)
\* The files a log has an entry for with one of the given outcomes.
Logged(log, outcomes) == {k \in 1 .. Len(log) : log[k].outcome \in outcomes}

RecordingsOf(pattern_id) == {k \in 1 .. Len(recorded) : recorded[k].pattern_id = pattern_id}

Min(S) == CHOOSE x \in S : \A y \in S : x <= y
Max(S) == CHOOSE x \in S : \A y \in S : x >= y

\* C17: after any sequence of update_pattern_tracker calls the stored count
\* of each pattern ID equals the number of matches recorded for it,
\* first_seen is the time of its first recording, last_seen the time of its
\* latest recording, and across every call no pattern ID is removed, no
\* count decreases and no first_seen changes.
PatternCounterMonotone ==
    /\ [](LET tracker == load_tracker(tracker_file)
          IN  /\ DOMAIN tracker = {recorded[k].pattern_id : k \in 1 .. Len(recorded)}
              /\ \A id \in DOMAIN tracker :
                    /\ tracker[id].count = Cardinality(RecordingsOf(id))
                    /\ tracker[id].first_seen = recorded[Min(RecordingsOf(id))].first_read
                    /\ tracker[id].last_seen = recorded[Max(RecordingsOf(id))].last_read)
    /\ [][LET before == load_tracker(tracker_file)
              after == load_tracker(tracker_file')
          IN  /\ DOMAIN before \subseteq DOMAIN after
              /\ \A id \in DOMAIN before :
                    /\ after[id].count >= before[id].count
                    /\ after[id].first_seen = before[id].first_seen]_vars

RecordedThreeTimes ==
    /\ tracker_file.exists
    /\ "import-error" \in DOMAIN tracker_file.data
    /\ tracker_file.data["import-error"].count = 3
    /\ tracker_file.data["import-error"].first_seen < tracker_file.data["import-error"].last_seen

(***************************************************************************)
(* Properties of the Stripe webhook.                                       *)
(***************************************************************************)
\* C19: after any sequence of payment_intent.succeeded deliveries at most
\* one entitlement exists per payment intent id; a delivery of an event
\* that was delivered and processed before (it names the buyer, so an
\* entitlement was granted for it) creates no new entitlement, is answered
\* with status success, and grant_entitlement returns the existing record.
EntitlementPerPaymentIntent ==
    /\ [](\A i, j \in 1 .. Len(entitlements) :
             entitlements[i].stripe_payment_intent_id =
                entitlements[j].stripe_payment_intent_id => i = j)
    /\ [][(/\ delivered' # delivered
           /\ \E k \in 1 .. Len(delivered) : delivered[k] = Last(delivered')
           /\ Last(delivered').user_id # 0) =>
             (/\ entitlements' = entitlements
              /\ webhook_response' = "success"
              /\ granted' = WithPaymentIntent(entitlements, Last(delivered').id)[1].id)]_vars

DuplicateDelivered ==
    /\ Len(delivered) = 3
    /\ delivered[1] = delivered[3]
    /\ delivered[2].id # delivered[1].id
    /\ Len(entitlements) = 2
    /\ granted = 1
    /\ webhook_response = "success"

\* The referral rows of the payment intent of the event being redelivered.
ReferralsOfEvent == WithPaymentIntent(referrals, delivered[1].id)

\* C20: after any number of sequential deliveries of the same
\* payment_intent.succeeded event carrying a referrer, exactly one referral
\* record exists for the payment intent, its status is credited, and the
\* referrer's referral_credits have increased by exactly 25% of the amount.
ReferralCreditedOnce ==
    (delivered # <<>> /\ delivered[1].referrer_id # 0) =>
        /\ Len(ReferralsOfEvent) = 1
        /\ ReferralsOfEvent[1].status = "credited"
        /\ delivered[1].referrer_id \in UserIds
        /\ users[delivered[1].referrer_id].referral_credits =
              InitialUsers[delivered[1].referrer_id].referral_credits +
              CreditAmount(delivered[1].amount)

\* C20, amended: the same, for an event whose metadata names the buyer and
\* whose referrer is an existing user other than the buyer.
ReferralCreditedOnceForValidReferrer ==
    (/\ delivered # <<>>
     /\ delivered[1].user_id # 0
     /\ delivered[1].referrer_id \in UserIds
     /\ delivered[1].referrer_id # delivered[1].user_id) =>
        /\ Len(ReferralsOfEvent) = 1
        /\ ReferralsOfEvent[1].status = "credited"
        /\ users[delivered[1].referrer_id].referral_credits =
              InitialUsers[delivered[1].referrer_id].referral_credits +
              CreditAmount(delivered[1].amount)

ReferralRedeliveredTwice ==
    /\ Len(delivered) = 3
    /\ delivered[1] = [id |-> "pi_1", amount |-> 999, user_id |-> 2,
                      price_id |-> "price_c1", referrer_id |-> 1]
    /\ users[1].referral_credits = 249
    /\ Len(referrals) = 1


(***************************************************************************)
(* Properties of magic links.                                              *)
(***************************************************************************)
\* C21: validate_magic_link returns a user only for a token that is
\* stored, not yet used and not expired, and then marks the link used;
\* every later validation of a token that was validated successfully
\* returns no user and no session token.
MagicLinkSingleUse ==
    /\ [][validations' # validations =>
            LET validation == Last(validations')
            IN  validation.user # 0 =>
                   /\ LinksWithToken(validation.token) # <<>>
                   /\ ~magic_links[LinkIndex(validation.token)].used
                   /\ utc_now <= magic_links[LinkIndex(validation.token)].expires_at
                   /\ magic_links'[LinkIndex(validation.token)].used]_vars
    /\ [](\A i, j \in 1 .. Len(validations) :
             (i < j /\ validations[i].token = validations[j].token
                    /\ validations[i].user # 0) =>
                (validations[j].user = 0 /\ ~validations[j].session))

ValidatedTwice ==
    /\ Len(validations) >= 2
    /\ validations[1].token = validations[2].token
    /\ validations[1].user = 1 /\ validations[1].session
    /\ validations[2].user = 0


(***************************************************************************)
(* Properties of the access checks.                                        *)
(***************************************************************************)
\* The active entitlements of the user that match what a check asked about:
\* the price, a price of the product, or the course's product (unique and
\* alacarte courses) or category (curriculum courses).
MatchingActive(asked) ==
    SelectSeq(entitlements, LAMBDA row :
        /\ row.user_id = asked.user_id
        /\ row.status = "active"
        /\ \/ asked.fn = "check_entitlement" /\ row.stripe_price_id = asked.target
           \/ /\ asked.fn = "check_product_access"
              /\ StripePrices[row.stripe_price_id] = asked.target
           \/ /\ asked.fn = "check_course_access"
              /\ asked.target \in {"unique", "alacarte"}
              /\ StripePrices[row.stripe_price_id] = asked.product
           \/ /\ asked.fn = "check_course_access"
              /\ asked.target = "curriculum"
              /\ StripeProducts[StripePrices[row.stripe_price_id]] = "curriculum")

TaskFlagFromOwnInvocation ==
    /\ \A t, u \in DOMAIN pool_tasks :
          (t # u /\ worker_pc[t] \in {"running", "exited"}
                 /\ worker_pc[u] \in {"running", "exited"}) =>
             OutputFile(pool_tasks[t]) # OutputFile(pool_tasks[u])
    /\ \A t \in DOMAIN pool_tasks :
          worker_pc[t] = "returned" => future_result[t].source = t

\* The files of the tasks that ended in the given list.
TasksEndingIn(result_key) ==
    {pool_tasks[t].file : t \in {u \in collected :
        result_key = IF worker_pc[u] = "raised" \/ ~future_result[u].success THEN "failed"
                     ELSE IF pool_tasks[u].action_type = "create" THEN "created"
                     ELSE "augmented"}}

\* C24: once every future is collected, every task is in exactly one list
\* and once: created and replaced files whose future returned success in
\* created, augmented ones in augmented, failures and exceptions in failed,
\* whatever the order in which the futures completed.
EveryTaskInOneList ==
    /\ Len(pool_results.created) + Len(pool_results.augmented) + Len(pool_results.failed)
          = Cardinality(collected)
    /\ \A result_key \in {"created", "augmented", "failed"} :
          /\ Range(pool_results[result_key]) = TasksEndingIn(result_key)
          /\ Len(pool_results[result_key]) = Cardinality(TasksEndingIn(result_key))

CreatedAndRaisedCollected ==
    /\ Len(pool_tasks) = 2
    /\ collected = {1, 2}
    /\ pool_tasks[1].action_type = "create" /\ pool_tasks[2].action_type = "augment"
    /\ pool_results = [created |-> <<1>>, augmented |-> <<>>, failed |-> <<2>>]
    /\ worker_pc[2] = "raised"


(***************************************************************************)
(* Properties of attempt_test_fix.                                         *)
(***************************************************************************)
\* The fix-agent invocations made so far.
FixInvocations == {k \in 1 .. Len(fix_log) : fix_log[k].invoked}

\* C25: attempt_test_fix invokes the fix agent at most max_attempts times
\* and always returns; it returns true only if the last attempt re-ran the
\* test after a successful fix invocation and the re-run exited with zero;
\* an attempt whose fix invocation failed has no re-run and counts as one
\* attempt.
FixAttemptsBounded ==
    /\ [](/\ Cardinality(FixInvocations) <= fix_max_attempts
          /\ Len(fix_log) = fix_attempt
          /\ fix_attempt <= fix_max_attempts
          /\ \A k \in 1 .. Len(fix_log) :
                /\ fix_log[k].attempt = k
                /\ fix_log[k].rerun => fix_log[k].invoked
          /\ fix_result = "true" =>
                /\ fix_log # <<>>
                /\ Last(fix_log).invoked
                /\ Last(fix_log).rerun
                /\ Last(fix_log).returncode_zero)
    /\ <>(fix_pc = "returned")

FixedOnSecondAttempt ==
    /\ fix_pc = "returned"
    /\ fix_result = "true"
    /\ fix_max_attempts = 2
    /\ Len(fix_log) = 2
    /\ fix_log[1].invoked /\ ~fix_log[1].rerun
    /\ fix_log[2].returncode_zero


(***************************************************************************)
(* The Test phase's success exit.                                          *)
(***************************************************************************)
\* C26: the Test phase exits with code 0 only if the last run of the
\* test-running command succeeded and its parsed results held no failing
\* record; a tool error or an unparseable result on the test run never
\* leads to a success exit.
TestSuccessNeedsCleanRun ==
    (IsTest /\ ReachedFinalStep /\ exit_code = 0) =>
        /\ main_test_response = "success"
        /\ FailedTests(main_results) = <<>>
        /\ skip_e2e => last_run = "no_failures"


(***************************************************************************)
(* The state a Plan phase run persists.                                    *)
(***************************************************************************)
\* The record in the state file.
PersistedOrdered ==
    (script = "plan" /\ disk.exists) =>
        /\ Truthy(disk.data.plan_file) => Truthy(disk.data.branch_name)
        /\ Truthy(disk.data.branch_name) => Truthy(disk.data.issue_class)
        /\ Truthy(disk.data.plan_file) => disk.data.plan_file = "specs/plan.md"

\* C27: in every state record persisted by a Plan run that started fresh,
\* plan_file is set only if branch_name is set and branch_name only if
\* issue_class is set, and plan_file is a path that existed on disk (the
\* one file on disk is specs/plan.md).
PlanStateFieldsOrdered ==
    (script = "plan" /\ state_data = NoData) => []PersistedOrdered

PlanFilePersisted ==
    /\ script = "plan"
    /\ disk.exists
    /\ disk.data = [issue_class |-> "/bug", branch_name |-> "feat-issue-1-adw-a",
                    plan_file |-> "specs/plan.md"]


(***************************************************************************)
(* Properties of determine_actions.                                        *)
(***************************************************************************)
\* How often a requirement is in the four action buckets together.
TimesInBuckets(req) ==
    Len(SelectSeq(det_actions.skip \o det_actions.create \o det_actions.replace \o
                  det_actions.augment, LAMBDA r : r = req))

\* C28: after determine_actions every requirement that categorize_tests_fast
\* classified is in exactly one of the buckets skip / create / replace /
\* augment, whatever list the batch validator returned.
EveryRequirementInOneBucket ==
    det_pc = "returned" =>
        \A req \in Range(det_categorized.missing) \cup
                   Range(det_categorized.obviously_broken) \cup
                   Range(det_categorized.needs_validation) :
            TimesInBuckets(req) = 1


(***************************************************************************)
(* Properties of the referral status.                                      *)
(***************************************************************************)
\* C29: for any sequence of confirm_referral and apply_referral_credit
\* calls on one referral, the referrer's credits are increased at most once
\* and the status never moves back from credited.
ReferralCreditedAtMostOnce ==
    /\ Cardinality({k \in 1 .. Len(referral_calls) : referral_calls[k].credited > 0}) <= 1
    /\ \A k \in 1 .. Len(referral_calls) :
          referral_calls[k].status_before = "credited" =>
             referral_calls[k].status_after = "credited"


(***************************************************************************)
(* Properties of concurrent webhook deliveries.                            *)
(***************************************************************************)
\* C30: for every interleaving of two concurrent deliveries of the same
\* event carrying a referrer, at most one referral record exists for the
\* payment intent and the referrer's credits have grown by at most one 25%
\* credit.
ConcurrentDeliveriesCreditOnce ==
    (con_pc # <<>> /\ \A d \in Deliveries : con_pc[d] \in {"success", "error"}) =>
        /\ Len(WithPaymentIntent(referrals, TheEvent.id)) <= 1
        /\ users[TheEvent.referrer_id].referral_credits <=
              InitialUsers[TheEvent.referrer_id].referral_credits +
              CreditAmount(TheEvent.amount)

====
